---- MODULE Spec2Model ----
(***************************************************************************)
(* A model of the refinement hierarchy of OpenSubdiv's FarRefineTables      *)
(* (opensubdiv/far/refineTables.cpp): the stack of VtrLevels, the stack of  *)
(* VtrRefinements between them, RefineUniform / RefineAdaptive / Unrefine / *)
(* Clear, the aggregate accessors and the Catmark feature-adaptive          *)
(* selector.                                                                *)
(*                                                                          *)
(* Conventions.  Component indices (faces, edges, vertices) are 1-based     *)
(* here where the code is 0-based.  The two stacks are sequences: the code's*)
(* _levels[i] is levels[i+1] and _refinements[i-1] is refinements[i].  A    *)
(* refinement's parent and child are kept as the code's 0-based positions   *)
(* in _levels.  Sharpness is an integer number of units of 1.0.             *)
(***************************************************************************)
EXTENDS Integers, Sequences, FiniteSets, TLC

VARIABLES subdivType, isUniform, maxLevel, levels, refinements,
          status, lastCall, refined, snap, currentBindState

vars == <<subdivType, isUniform, maxLevel, levels, refinements,
          status, lastCall, refined, snap, currentBindState>>

\* The largest depth argument passed to RefineUniform / RefineAdaptive.
MaxDepthArg == 2

\* The depth of the adaptive early-termination scenario, RefineAdaptive(5).
ScenarioDepth == 5

\* SdcCrease::INFINITE, the sentinel of a sharpness that never decays.
INFINITE == 10

\* The largest valence of a vertex neighborhood handed to the mask kernels.
MaxValence == 4

\* The deepest level an edge is followed to by the mask kernels.
MaxMaskLevel == 2

\* The largest number of quads attached to one edge of the analyzed quad.
MaxFlaps == 2

\* The largest base level, in faces, that AnalyzerSpec refines.
MaxRefinedFaces == 3

\* The longest batch vector passed to the compute controller's Refine.
MaxBatches == 2

TYPE_BILINEAR == "TYPE_BILINEAR"
TYPE_CATMARK == "TYPE_CATMARK"
TYPE_LOOP == "TYPE_LOOP"

SdcTypes == {TYPE_BILINEAR, TYPE_CATMARK, TYPE_LOOP}

-----------------------------------------------------------------------------
(* Small helpers on sequences and sets of numbers.                          *)

Max(a, b) == IF a >= b THEN a ELSE b

Indices(n) == [i \in 1..n |-> i]

\* The elements of a finite set of numbers in increasing order.
RECURSIVE SortedSeq(_)
SortedSeq(S) ==
    IF S = {} THEN <<>>
    ELSE LET m == CHOOSE x \in S : \A y \in S : x <= y
         IN <<m>> \o SortedSeq(S \ {m})

Range(s) == {s[i] : i \in 1..Len(s)}

RECURSIVE SumSeq(_)
SumSeq(s) == IF s = <<>> THEN 0 ELSE Head(s) + SumSeq(Tail(s))

\* A next position that does not advance.
NextIdxSame(i, n) == i

\* The next / previous position around a face of n corners.
NextIdx(i, n) == (i % n) + 1
PrevIdx(i, n) == ((i + n - 2) % n) + 1

-----------------------------------------------------------------------------
(* VtrLevel: one topology snapshot.  A default-constructed level is empty.  *)

EmptyLevel ==
    [depth |-> 0, faceCount |-> 0, edgeCount |-> 0, vertCount |-> 0,
     faceVerts |-> <<>>, faceEdges |-> <<>>,
     edgeVerts |-> <<>>, edgeFaces |-> <<>>,
     vertEdges |-> <<>>, vertFaces |-> <<>>,
     edgeSharpness |-> <<>>, vertSharpness |-> <<>>]

\* The incident-face, incident-edge tables derived from faceVerts, faceEdges
\* and edgeVerts, each list in increasing index order.
EdgeFacesOf(faceEdges, nEdges) ==
    [e \in 1..nEdges |->
        SortedSeq({f \in 1..Len(faceEdges) : e \in Range(faceEdges[f])})]

VertFacesOf(faceVerts, nVerts) ==
    [v \in 1..nVerts |->
        SortedSeq({f \in 1..Len(faceVerts) : v \in Range(faceVerts[f])})]

VertEdgesOf(edgeVerts, nVerts) ==
    [v \in 1..nVerts |->
        SortedSeq({e \in 1..Len(edgeVerts) : v \in Range(edgeVerts[e])})]

-----------------------------------------------------------------------------
(* The factory: fills Level[0] from a TopologyDescriptor                    *)
(*   [numVertices, faces (vertIndices split by vertsPerFace),               *)
(*    creases (set of <<v0, v1, sharpness>>), corners (set of <<v, s>>)].   *)
(* Edges are deduplicated in order of first appearance around the faces.    *)

FacePairs(fv) == [i \in 1..Len(fv) |-> <<fv[i], fv[NextIdx(i, Len(fv))]>>]

RECURSIVE AllPairs(_)
AllPairs(faces) ==
    IF faces = <<>> THEN <<>>
    ELSE FacePairs(Head(faces)) \o AllPairs(Tail(faces))

SamePair(p, q) == {p[1], p[2]} = {q[1], q[2]}

RECURSIVE DedupEdges(_, _)
DedupEdges(pairs, acc) ==
    IF pairs = <<>> THEN acc
    ELSE IF \E k \in 1..Len(acc) : SamePair(acc[k], Head(pairs))
         THEN DedupEdges(Tail(pairs), acc)
         ELSE DedupEdges(Tail(pairs), Append(acc, Head(pairs)))

EdgeIndex(edges, p) == CHOOSE k \in 1..Len(edges) : SamePair(edges[k], p)

FactoryLevel(desc) ==
    LET faces == desc.faces
        edges == DedupEdges(AllPairs(faces), <<>>)
        fEdges == [f \in 1..Len(faces) |->
                     [i \in 1..Len(faces[f]) |->
                        EdgeIndex(edges, FacePairs(faces[f])[i])]]
        eSharp == [e \in 1..Len(edges) |->
                     IF \E c \in desc.creases : SamePair(c, edges[e])
                     THEN (CHOOSE c \in desc.creases : SamePair(c, edges[e]))[3]
                     ELSE 0]
        vSharp == [v \in 1..desc.numVertices |->
                     IF \E c \in desc.corners : c[1] = v
                     THEN (CHOOSE c \in desc.corners : c[1] = v)[2]
                     ELSE 0]
    IN [depth |-> 0,
        faceCount |-> Len(faces), edgeCount |-> Len(edges),
        vertCount |-> desc.numVertices,
        faceVerts |-> faces, faceEdges |-> fEdges,
        edgeVerts |-> edges,
        edgeFaces |-> EdgeFacesOf(fEdges, Len(edges)),
        vertEdges |-> VertEdgesOf(edges, desc.numVertices),
        vertFaces |-> VertFacesOf(faces, desc.numVertices),
        edgeSharpness |-> eSharp, vertSharpness |-> vSharp]

\* The control meshes the factory is run on.
\* A single quad with one infinitely sharp corner.
SharpCornerQuad ==
    [numVertices |-> 4, faces |-> << <<1, 2, 3, 4>> >>,
     creases |-> {}, corners |-> {<<1, INFINITE>>}]

Triangle ==
    [numVertices |-> 3, faces |-> << <<1, 2, 3>> >>,
     creases |-> {}, corners |-> {}]

\* A closed regular quad grid: five quads on a torus, every vertex of
\* valence 4, every edge between two faces.
RegularTorus ==
    [numVertices |-> 5,
     faces |-> << <<1, 2, 5, 4>>, <<2, 3, 1, 5>>, <<3, 4, 2, 1>>,
                  <<4, 5, 3, 2>>, <<5, 1, 4, 3>> >>,
     creases |-> {}, corners |-> {}]

\* The same torus with one edge of sharpness 1.
CreasedTorus ==
    [RegularTorus EXCEPT !.creases = {<<1, 2, 1>>}]

\* Two quads side by side, the edge between them of sharpness 2.
CreasedStrip ==
    [numVertices |-> 6, faces |-> << <<1, 2, 5, 4>>, <<2, 3, 6, 5>> >>,
     creases |-> {<<2, 5, 2>>}, corners |-> {}]

Descriptors ==
    {SharpCornerQuad, Triangle, RegularTorus, CreasedTorus, CreasedStrip}

-----------------------------------------------------------------------------
(* The crease algebra used when sharpness is propagated to a child level    *)
(* (Uniform creasing method): a sharpness decays by 1 per level, never below*)
(* 0, and an infinite sharpness stays infinite.                             *)

SubdivideSharpness(s) == IF s >= INFINITE THEN INFINITE ELSE Max(s - 1, 0)

-----------------------------------------------------------------------------
(* VtrRefinement: the relation from a parent level to its child.            *)

\* VtrRefinement::Options as default-constructed.
DefaultOptions ==
    [sparse |-> FALSE, faceTopologyOnly |-> FALSE, computeMasks |-> FALSE,
     parentTagging |-> FALSE, childTagging |-> FALSE]

NoLevel == -1

\* A default-constructed refinement: linked to nothing, not refined.
EmptyRefinement ==
    [parent |-> NoLevel, child |-> NoLevel,
     initialized |-> FALSE, refined |-> FALSE,
     options |-> DefaultOptions,
     selectedFaces |-> {}, childVertIncomplete |-> <<>>,
     hasMasks |-> FALSE]

\* initialize(parent, child): links the two levels (by position in _levels)
\* and starts from empty maps; the child level is emptied by the caller of
\* this operator (see InitializeChild).
Initialize(parentIdx, childIdx) ==
    [EmptyRefinement EXCEPT !.parent = parentIdx, !.child = childIdx,
                            !.initialized = TRUE]

InitializeChild(parentLevel) ==
    [EmptyLevel EXCEPT !.depth = parentLevel.depth + 1]

\* The members of S among lo..hi in increasing order (by halving, so that
\* the evaluation stays shallow on long ranges).
RECURSIVE SortedBetween(_, _, _)
SortedBetween(S, lo, hi) ==
    IF lo > hi THEN <<>>
    ELSE IF lo = hi THEN (IF lo \in S THEN <<lo>> ELSE <<>>)
    ELSE LET mid == (lo + hi) \div 2
         IN SortedBetween(S, lo, mid) \o SortedBetween(S, mid + 1, hi)

SortedIn(S, N) == SortedBetween(S, 1, N)

\* For each x of lo..hi, base plus the number of members of S in lo..x.
RECURSIVE RanksBetween(_, _, _, _)
RanksBetween(S, lo, hi, base) ==
    IF lo > hi THEN <<>>
    ELSE IF lo = hi THEN <<base + (IF lo \in S THEN 1 ELSE 0)>>
    ELSE LET mid == (lo + hi) \div 2
             left == RanksBetween(S, lo, mid, base)
         IN left \o RanksBetween(S, mid + 1, hi, left[Len(left)])

\* For each x of 1..N the number of members of S that are <= x.
RanksIn(S, N) == RanksBetween(S, 1, N, 0)

\* For the faces lo..hi of P: [offsets, total], where offsets[f - lo + 1] is
\* base plus the number of child faces of the selected faces of lo..f-1, and
\* total is base plus that number for lo..hi.
RECURSIVE OffsetsBetween(_, _, _, _, _)
OffsetsBetween(P, SF, lo, hi, base) ==
    IF lo > hi THEN [offsets |-> <<>>, total |-> base]
    ELSE IF lo = hi
    THEN [offsets |-> <<base>>,
          total |-> base + (IF lo \in SF THEN Len(P.faceVerts[lo]) ELSE 0)]
    ELSE LET mid == (lo + hi) \div 2
             left == OffsetsBetween(P, SF, lo, mid, base)
             right == OffsetsBetween(P, SF, mid + 1, hi, left.total)
         IN [offsets |-> left.offsets \o right.offsets, total |-> right.total]

\* The flat list of the child faces of the selected faces of level P:
\* one <<parent face, corner>> per child face, by parent face, then corner.
RECURSIVE ChildFaceList(_, _, _, _)
ChildFaceList(P, faceSeq, lo, hi) ==
    IF lo > hi THEN <<>>
    ELSE IF lo = hi
    THEN [j \in 1..Len(P.faceVerts[faceSeq[lo]]) |-> <<faceSeq[lo], j>>]
    ELSE LET mid == (lo + hi) \div 2
         IN ChildFaceList(P, faceSeq, lo, mid)
               \o ChildFaceList(P, faceSeq, mid + 1, hi)

\* The edges of the selected faces.
SelectedEdges(P, SF) == UNION {Range(P.faceEdges[f]) : f \in SF}

\* The Catmark child of level P when the faces SF are selected (all of them
\* for a uniform refinement).  Child vertices: one per selected face, then
\* one per selected edge (an edge of a selected face), then one per parent
\* vertex.  Child faces: one per corner of a selected face, with vertices
\* <<corner, next edge point, face point, previous edge point>>.  Child
\* edges: one per corner of a selected face (face point to edge point), then
\* two per selected edge (edge point to each end).  With faceTopologyOnly
\* only the face-vertex lists are built.
ChildLevel(P, SF, options) ==
    LET SE == SelectedEdges(P, SF)
        sfSeq == SortedIn(SF, P.faceCount)
        seSeq == SortedIn(SE, P.edgeCount)
        nFV == Len(sfSeq)
        nEV == Len(seSeq)
        fRank == RanksIn(SF, P.faceCount)
        eRank == RanksIn(SE, P.edgeCount)
        off == OffsetsBetween(P, SF, 1, P.faceCount, 0).offsets
        fcv(f) == fRank[f]
        ecv(e) == nFV + eRank[e]
        vcv(v) == nFV + nEV + v
        cfl == ChildFaceList(P, sfSeq, 1, Len(sfSeq))
        nCF == Len(cfl)
        nCE == nCF + 2 * nEV
        nCV == nFV + nEV + P.vertCount
        \* the child edge of parent edge e at its end v
        ceAt(e, v) == nCF + 2 * eRank[e]
                          - (IF P.edgeVerts[e][1] = v THEN 1 ELSE 0)
        corners(f) == 1..Len(P.faceVerts[f])
        prev(f, j) == PrevIdx(j, Len(P.faceVerts[f]))
        next(f, j) == NextIdx(j, Len(P.faceVerts[f]))
        \* the parent edge and end of child edge k > nCF
        edgeOf(k) == seSeq[(k - nCF + 1) \div 2]
        endOf(k) == IF (k - nCF) % 2 = 1 THEN 1 ELSE 2
        selFacesOfEdge(e) == Range(P.edgeFaces[e]) \cap SF
        fVerts == [k \in 1..nCF |->
                    LET f == cfl[k][1]
                        j == cfl[k][2]
                    IN <<vcv(P.faceVerts[f][j]), ecv(P.faceEdges[f][j]),
                         fcv(f), ecv(P.faceEdges[f][prev(f, j)])>>]
        fEdges == [k \in 1..nCF |->
                    LET f == cfl[k][1]
                        j == cfl[k][2]
                        v == P.faceVerts[f][j]
                    IN <<ceAt(P.faceEdges[f][j], v), k,
                         off[f] + prev(f, j),
                         ceAt(P.faceEdges[f][prev(f, j)], v)>>]
        eVerts == [k \in 1..nCE |->
                    IF k <= nCF
                    THEN <<fcv(cfl[k][1]),
                           ecv(P.faceEdges[cfl[k][1]][cfl[k][2]])>>
                    ELSE <<ecv(edgeOf(k)),
                           vcv(P.edgeVerts[edgeOf(k)][endOf(k)])>>]
        eFaces == [k \in 1..nCE |->
                    IF k <= nCF
                    THEN SortedSeq({k, off[cfl[k][1]]
                                         + next(cfl[k][1], cfl[k][2])})
                    ELSE LET e == edgeOf(k)
                             v == P.edgeVerts[e][endOf(k)]
                         IN SortedSeq(UNION {
                              {off[f] + j : j \in
                                 {c \in corners(f) :
                                    /\ P.faceVerts[f][c] = v
                                    /\ \/ P.faceEdges[f][c] = e
                                       \/ P.faceEdges[f][prev(f, c)] = e}}
                              : f \in selFacesOfEdge(e)})]
        vFaces == [k \in 1..nCV |->
                    IF k <= nFV
                    THEN [j \in corners(sfSeq[k]) |-> off[sfSeq[k]] + j]
                    ELSE IF k <= nFV + nEV
                    THEN LET e == seSeq[k - nFV]
                         IN SortedSeq(UNION {UNION {
                              {off[f] + j, off[f] + next(f, j)} : j \in
                                 {c \in corners(f) : P.faceEdges[f][c] = e}}
                              : f \in selFacesOfEdge(e)})
                    ELSE LET v == k - nFV - nEV
                         IN SortedSeq(UNION {
                              {off[f] + j : j \in
                                 {c \in corners(f) : P.faceVerts[f][c] = v}}
                              : f \in Range(P.vertFaces[v]) \cap SF})]
        vEdges == [k \in 1..nCV |->
                    IF k <= nFV
                    THEN [j \in corners(sfSeq[k]) |-> off[sfSeq[k]] + j]
                    ELSE IF k <= nFV + nEV
                    THEN LET e == seSeq[k - nFV]
                         IN SortedSeq(
                              {ceAt(e, P.edgeVerts[e][1]),
                               ceAt(e, P.edgeVerts[e][2])}
                              \cup UNION {
                                {off[f] + j : j \in
                                   {c \in corners(f) : P.faceEdges[f][c] = e}}
                                : f \in selFacesOfEdge(e)})
                    ELSE LET v == k - nFV - nEV
                         IN SortedSeq({ceAt(e, v) :
                                e \in Range(P.vertEdges[v]) \cap SE})]
        eSharp == [k \in 1..nCE |->
                    IF k <= nCF THEN 0
                    ELSE SubdivideSharpness(P.edgeSharpness[edgeOf(k)])]
        vSharp == [k \in 1..nCV |->
                    IF k <= nFV + nEV THEN 0
                    ELSE SubdivideSharpness(P.vertSharpness[k - nFV - nEV])]
        full == ~options.faceTopologyOnly
    IN [depth |-> P.depth + 1,
        faceCount |-> nCF, edgeCount |-> nCE, vertCount |-> nCV,
        faceVerts |-> fVerts,
        faceEdges |-> IF full THEN fEdges ELSE <<>>,
        edgeVerts |-> IF full THEN eVerts ELSE <<>>,
        edgeFaces |-> IF full THEN eFaces ELSE <<>>,
        vertEdges |-> IF full THEN vEdges ELSE <<>>,
        vertFaces |-> IF full THEN vFaces ELSE <<>>,
        edgeSharpness |-> eSharp, vertSharpness |-> vSharp]

\* The child-vertex tags of a sparse refinement: a child vertex is incomplete
\* when its parent component was not fully selected (an edge with an
\* unselected incident face, a vertex with an unselected incident face or
\* with none).  Children of faces are complete.
ChildVertIncomplete(P, SF) ==
    LET seSeq == SortedIn(SelectedEdges(P, SF), P.edgeCount)
        nFV == Cardinality(SF)
        nEV == Len(seSeq)
    IN [k \in 1..(nFV + nEV + P.vertCount) |->
          IF k <= nFV THEN FALSE
          ELSE IF k <= nFV + nEV
               THEN ~(Range(P.edgeFaces[seSeq[k - nFV]]) \subseteq SF)
               ELSE LET vf == Range(P.vertFaces[k - nFV - nEV])
                    IN vf = {} \/ ~(vf \subseteq SF)]

AllFaces(P) == 1..P.faceCount

\* refine(options) on a refinement initialized from parent level P with the
\* faces `selection` marked by a selector: the refinement record and the
\* child level it builds.  A refinement that is not sparse selects all.
Refine(r, P, selection, options) ==
    LET SF == IF options.sparse THEN selection ELSE AllFaces(P)
    IN [refinement |->
          [r EXCEPT !.refined = TRUE, !.options = options,
                    !.selectedFaces = SF,
                    !.childVertIncomplete =
                        IF options.childTagging
                        THEN ChildVertIncomplete(P, SF) ELSE <<>>,
                    !.hasMasks = options.computeMasks],
        child |-> ChildLevel(P, SF, options)]

-----------------------------------------------------------------------------
(* VtrSparseSelector: marks faces of the parent level of one refinement.    *)
(* It lives for one iteration of RefineAdaptive.  `calls` is the list of    *)
(* the calls made on it, in order.                                          *)

Event(name, step, arg) == [ev |-> name, step |-> step, arg |-> arg]

NoArg == 0

NewSelector(step) ==
    [step |-> step, state |-> "Unstarted",
     hasPrevious |-> FALSE, previous |-> EmptyRefinement,
     selected |-> {}, calls |-> <<>>]

\* setPreviousRefinement(p): p is null (hasPrev = FALSE) or a refinement.
SetPreviousRefinement(sel, hasPrev, prev) ==
    [sel EXCEPT !.hasPrevious = hasPrev, !.previous = prev,
                !.calls = Append(@, Event("setPreviousRefinement", sel.step,
                                          IF hasPrev THEN prev.child
                                          ELSE NoLevel))]

BeginSelection(sel) ==
    [sel EXCEPT !.state = "Selecting",
                !.calls = Append(@, Event("beginSelection", sel.step, NoArg))]

EndSelection(sel) ==
    [sel EXCEPT !.state = "Finalized",
                !.calls = Append(@, Event("endSelection", sel.step, NoArg))]

\* selectFace(f) marks face f; selectVertexFaces(v) marks every face
\* incident to v in the parent level.
FacesMarkedBy(level, call) ==
    IF call.ev = "selectFace" THEN {call.arg}
    ELSE Range(level.vertFaces[call.arg])

\* The selector after the selectFace / selectVertexFaces calls `made`, in
\* that order: selection is a union.
AfterCalls(sel, level, made) ==
    [sel EXCEPT !.selected =
                    @ \cup UNION {FacesMarkedBy(level, made[i]) :
                                     i \in 1..Len(made)},
                !.calls = @ \o made]

IsSelectionEmpty(sel) == sel.selected = {}

\* isVertexIncomplete(v): v is a child of the previous refinement, tagged
\* incomplete by it.  With no previous refinement no vertex is incomplete.
IsVertexIncomplete(sel, v) ==
    /\ sel.hasPrevious
    /\ v <= Len(sel.previous.childVertIncomplete)
    /\ sel.previous.childVertIncomplete[v]

-----------------------------------------------------------------------------
(* FarRefineTables::catmarkFeatureAdaptiveSelector: the three passes over   *)
(* the faces, the vertices and the edges of the refinement's parent level.  *)

BoolInt(b) == IF b THEN 1 ELSE 0

\* The test of the face loop with the first comparison of the boundary test
\* reversed.
FaceSelectsReversed(level, f) ==
    IF Len(level.faceVerts[f]) # 4 THEN TRUE
    ELSE LET fe == level.faceEdges[f]
             nf(i) == Len(level.edgeFaces[fe[i]])
             boundaryEdgeSum == BoolInt(nf(1) = 1) + BoolInt(nf(2) = 1)
                                + BoolInt(nf(3) = 1) + BoolInt(nf(4) = 1)
         IN \/ boundaryEdgeSum < 2
            \/ (boundaryEdgeSum = 2 /\ nf(1) = nf(3))

\* The test of the face loop: a non-quad, or a quad with more than two
\* boundary edges, or with two and faceEdges[0], faceEdges[2] having the
\* same number of incident faces.
FaceSelects(level, f) ==
    IF Len(level.faceVerts[f]) # 4 THEN TRUE
    ELSE LET fe == level.faceEdges[f]
             nf(i) == Len(level.edgeFaces[fe[i]])
             boundaryEdgeSum == BoolInt(nf(1) = 1) + BoolInt(nf(2) = 1)
                                + BoolInt(nf(3) = 1) + BoolInt(nf(4) = 1)
         IN \/ boundaryEdgeSum > 2
            \/ (boundaryEdgeSum = 2 /\ nf(1) = nf(3))

\* A vertex test that asks a sharp vertex for more than one incident face.
VertexSelectsMoreThanOne(level, v) ==
    LET vertSharpness == level.vertSharpness[v]
        nFaces == Len(level.vertFaces[v])
        nEdges == Len(level.vertEdges[v])
    IN IF vertSharpness > 0
       THEN (nFaces > 1) \/ (vertSharpness < INFINITE)
       ELSE IF nFaces = nEdges THEN nFaces # 4 ELSE nFaces # 2

\* The value of selectVertex in the vertex loop.
VertexSelects(level, v) ==
    LET vertSharpness == level.vertSharpness[v]
        nFaces == Len(level.vertFaces[v])
        nEdges == Len(level.vertEdges[v])
    IN IF vertSharpness > 0
       THEN (nFaces # 1) \/ (vertSharpness < INFINITE)
       ELSE IF nFaces = nEdges THEN nFaces # 4 ELSE nFaces # 2

\* An edge test that takes edges of exactly two faces only.
EdgeSelectsManifoldOnly(level, e) ==
    ~(level.edgeSharpness[e] <= 0 \/ Len(level.edgeFaces[e]) # 2)

\* The edges the edge loop does not skip.
EdgeSelects(level, e) ==
    ~(level.edgeSharpness[e] <= 0 \/ Len(level.edgeFaces[e]) < 2)

\* A face loop that tests quads only.
FaceStepQuadsOnly(sel, level, f) ==
    IF Len(level.faceVerts[f]) = 4 /\ FaceSelects(level, f)
    THEN <<Event("selectFace", sel.step, f)>>
    ELSE <<>>

\* The selector calls made by one iteration of each loop.
FaceStep(sel, level, f) ==
    IF FaceSelects(level, f) THEN <<Event("selectFace", sel.step, f)>>
    ELSE <<>>

\* A vertex loop that does not skip incomplete vertices.
VertexStepOfAnyVertex(sel, level, v) ==
    IF VertexSelects(level, v)
    THEN <<Event("selectVertexFaces", sel.step, v)>>
    ELSE <<>>

VertexStep(sel, level, v) ==
    IF IsVertexIncomplete(sel, v) THEN <<>>
    ELSE IF VertexSelects(level, v)
    THEN <<Event("selectVertexFaces", sel.step, v)>>
    ELSE <<>>

EdgeEnd(sel, level, v) ==
    IF ~IsVertexIncomplete(sel, v)
    THEN <<Event("selectVertexFaces", sel.step, v)>>
    ELSE <<>>

EdgeStep(sel, level, e) ==
    IF ~EdgeSelects(level, e) THEN <<>>
    ELSE EdgeEnd(sel, level, level.edgeVerts[e][1])
            \o EdgeEnd(sel, level, level.edgeVerts[e][2])

\* The calls made by the iterations lo..hi of each loop, in order (ranges
\* are split in halves so that the evaluation stays shallow).
RECURSIVE FacePass(_, _, _, _)
FacePass(sel, level, lo, hi) ==
    IF lo > hi THEN <<>>
    ELSE IF lo = hi THEN FaceStep(sel, level, lo)
    ELSE FacePass(sel, level, lo, (lo + hi) \div 2)
            \o FacePass(sel, level, ((lo + hi) \div 2) + 1, hi)

RECURSIVE VertexPass(_, _, _, _)
VertexPass(sel, level, lo, hi) ==
    IF lo > hi THEN <<>>
    ELSE IF lo = hi THEN VertexStep(sel, level, lo)
    ELSE VertexPass(sel, level, lo, (lo + hi) \div 2)
            \o VertexPass(sel, level, ((lo + hi) \div 2) + 1, hi)

RECURSIVE EdgePass(_, _, _, _)
EdgePass(sel, level, lo, hi) ==
    IF lo > hi THEN <<>>
    ELSE IF lo = hi THEN EdgeStep(sel, level, lo)
    ELSE EdgePass(sel, level, lo, (lo + hi) \div 2)
            \o EdgePass(sel, level, ((lo + hi) \div 2) + 1, hi)

\* The three loops in the order of the code; whether a vertex is incomplete
\* does not depend on what has been selected so far.
catmarkFeatureAdaptiveSelector(sel, level) ==
    LET faceCalls == IF level.depth = 0
                     THEN FacePass(sel, level, 1, level.faceCount) ELSE <<>>
        vertCalls == VertexPass(sel, level, 1, level.vertCount)
        edgeCalls == EdgePass(sel, level, 1, level.edgeCount)
    IN AfterCalls(sel, level, faceCalls \o vertCalls \o edgeCalls)

-----------------------------------------------------------------------------
(* FarRefineTables.                                                         *)
(*   subdivType, isUniform, maxLevel, levels, refinements: its members.     *)
(*   status: "ok", or "aborted" once an assert has failed (the program ends)*)
(*   lastCall: the last member function called, its arguments, the calls it *)
(*     made on refinements and selectors, and its return value.             *)
(*   refined: a Refine* call has returned since construction or since the   *)
(*     last Unrefine.                                                       *)
(*   snap: the object as the last RefineUniform left it, kept while the     *)
(*     only call made since is one Unrefine (armed); roundTrip: that        *)
(*     RefineUniform directly followed an Unrefine that directly followed a *)
(*     RefineUniform with the same arguments; shorter: with the same flags  *)
(*     and a greater maxLevel.                                              *)

Call(op, args, events, result) ==
    [op |-> op, args |-> args, events |-> events, result |-> result]

NoSnap ==
    [valid |-> FALSE, armed |-> FALSE, roundTrip |-> FALSE,
     shorter |-> FALSE, args |-> <<>>, facade |-> <<>>]

\* std::vector::resize(n): keeps the first n elements, appends
\* default-constructed ones.
Resize(seq, n, default) ==
    [k \in 1..n |-> IF k <= Len(seq) THEN seq[k] ELSE default]

\* The values that reading _levels[0].vertCount() can give.  On an empty
\* vector the read is out of bounds: whatever the storage holds, zero or not.
BaseVertCountReads ==
    IF Len(levels) >= 1 THEN {levels[1].vertCount} ELSE {0, 1}

\* OsdVertexBufferDescriptor: offset, length and stride in elements.  A
\* descriptor passed by pointer may be null.
OsdVertexBufferDescriptor(offset, length, stride) ==
    [isNull |-> FALSE, offset |-> offset, length |-> length, stride |-> stride]

NullDescriptor == [isNull |-> TRUE, offset |-> 0, length |-> 0, stride |-> 0]

\* OsdVertexBufferDescriptor::Reset, and the descriptor as constructed.
ResetDescriptor == OsdVertexBufferDescriptor(0, 0, 0)

NullKernelBundle ==
    [isNull |-> TRUE, vertexDesc |-> ResetDescriptor,
     varyingDesc |-> ResetDescriptor, interleaved |-> FALSE]

\* BindState(): the bind state of a controller as constructed.
BindState ==
    [vertexBuffer |-> 0, varyingBuffer |-> 0,
     vertexDesc |-> ResetDescriptor, varyingDesc |-> ResetDescriptor,
     kernelBundle |-> NullKernelBundle]

Init ==
    /\ subdivType \in SdcTypes
    /\ isUniform = TRUE
    /\ maxLevel = 0
    /\ levels = <<EmptyLevel>>
    /\ refinements = <<>>
    /\ status = "ok"
    /\ lastCall = Call("FarRefineTables", <<>>, <<>>, <<>>)
    /\ refined = FALSE
    /\ snap = NoSnap
    /\ currentBindState = BindState

\* FarRefineTablesFactory::Create: fills the base level of the object it has
\* just constructed.
FactoryFill(desc) ==
    /\ status = "ok"
    /\ lastCall.op = "FarRefineTables"
    /\ levels' = <<FactoryLevel(desc)>>
    /\ lastCall' = Call("FactoryFill", <<>>, <<>>, <<>>)
    /\ snap' = NoSnap
    /\ UNCHANGED <<currentBindState, subdivType, isUniform, maxLevel, refinements, status,
                   refined>>

\* A failed assert: the program ends with the members as they are.
Abort(op) ==
    /\ status' = "aborted"
    /\ lastCall' = Call(op, <<>>, <<>>, <<>>)
    /\ UNCHANGED <<currentBindState, subdivType, isUniform, maxLevel, levels, refinements,
                   refined, snap>>

\* Unrefine without the resize: refinements are cleared, levels are kept.
UnrefineLevelsKept == levels

\* Unrefine that resets the base level as well.
UnrefineLevelsReset == IF Len(levels) # 0 THEN <<EmptyLevel>> ELSE levels

\* Unrefine that clears the levels, as Clear does.
UnrefineLevelsAsClear == <<>>

UnrefineLevels == IF Len(levels) # 0 THEN Resize(levels, 1, EmptyLevel)
                  ELSE levels

Unrefine ==
    /\ status = "ok"
    /\ levels' = UnrefineLevels
    /\ refinements' = <<>>
    /\ refined' = FALSE
    /\ lastCall' = Call("Unrefine", <<>>, <<>>, <<>>)
    /\ snap' = IF snap.valid /\ lastCall.op = "RefineUniform"
               THEN [snap EXCEPT !.armed = TRUE] ELSE NoSnap
    /\ UNCHANGED <<currentBindState, subdivType, isUniform, maxLevel, status>>

Clear ==
    /\ status = "ok"
    /\ levels' = <<>>
    /\ refinements' = <<>>
    /\ lastCall' = Call("Clear", <<>>, <<>>, <<>>)
    /\ snap' = NoSnap
    /\ UNCHANGED <<currentBindState, subdivType, isUniform, maxLevel, status, refined>>

\* The loops of GetVertCount, GetEdgeCount and GetFaceCount, from position i.
RECURSIVE VertCountFrom(_, _)
VertCountFrom(lv, i) ==
    IF i < Len(lv) THEN lv[i + 1].vertCount + VertCountFrom(lv, i + 1) ELSE 0

RECURSIVE EdgeCountFrom(_, _)
EdgeCountFrom(lv, i) ==
    IF i < Len(lv) THEN lv[i + 1].edgeCount + EdgeCountFrom(lv, i + 1) ELSE 0

RECURSIVE FaceCountFrom(_, _)
FaceCountFrom(lv, i) ==
    IF i < Len(lv) THEN lv[i + 1].faceCount + FaceCountFrom(lv, i + 1) ELSE 0

\* GetVertCount with its loop started after the base level.
GetVertCountSkippingBase == VertCountFrom(levels, 1)

GetVertCount == VertCountFrom(levels, 0)
GetEdgeCount == EdgeCountFrom(levels, 0)
GetFaceCount == FaceCountFrom(levels, 0)

\* One call of each of the three accessors.
GetCounts ==
    /\ status = "ok"
    /\ lastCall' = Call("GetCounts", <<>>, <<>>,
                        <<GetVertCount, GetEdgeCount, GetFaceCount>>)
    /\ snap' = NoSnap
    /\ UNCHANGED <<currentBindState, subdivType, isUniform, maxLevel, levels, refinements,
                   status, refined>>

-----------------------------------------------------------------------------
(* RefineUniform.                                                           *)

\* _faceTopologyOnly with the two branches of the conditional exchanged.
FaceTopologyOnlyInverted(fullTopology, i, maxLvl) ==
    IF fullTopology THEN (i = maxLvl) ELSE FALSE

\* _faceTopologyOnly set on the last level whatever fullTopology is.
FaceTopologyOnlyLastLevel(fullTopology, i, maxLvl) == (i = maxLvl)

\* refineOptions._faceTopologyOnly of iteration i.
UniformFaceTopologyOnly(fullTopology, i, maxLvl) ==
    IF fullTopology THEN FALSE ELSE (i = maxLvl)

\* The loop of RefineUniform from iteration i, on st = [levels, refinements,
\* events].  (The state after an iteration is bound as the member of a set,
\* so that it is evaluated once, before the next iteration.)
\* A step that initializes the next refinement before it refines its own.
UniformStepOverlapping(i) ==
    <<Event("initialize", i, NoArg), Event("initialize", i + 1, NoArg),
      Event("refine", i, NoArg)>>

\* The calls one iteration of the loop of RefineUniform makes on
\* Refinement[i-1].
UniformStep(i) ==
    <<Event("initialize", i, NoArg), Event("refine", i, NoArg)>>

RECURSIVE UniformLoop(_, _, _, _, _)
UniformLoop(st, i, maxLvl, fullTopology, refineOptions) ==
    IF i > maxLvl THEN st
    ELSE LET options ==
                 [refineOptions EXCEPT !.faceTopologyOnly =
                     UniformFaceTopologyOnly(fullTopology, i, maxLvl)]
             parentLevel == st.levels[i]
             res == Refine(Initialize(i - 1, i), parentLevel, {}, options)
             after ==
                [levels |-> [st.levels EXCEPT ![i + 1] = res.child],
                 refinements |-> [st.refinements EXCEPT ![i] = res.refinement],
                 events |-> st.events \o UniformStep(i)]
         IN CHOOSE r \in {UniformLoop(s, i + 1, maxLvl, fullTopology,
                                      options) : s \in {after}} : TRUE

\* RefineUniform that leaves refineOptions._computeMasks at its default.
UniformResultNoMasks(maxLvl, fullTopology, computeMasks) ==
    UniformLoop([levels |-> Resize(levels, maxLvl + 1, EmptyLevel),
                 refinements |-> Resize(refinements, maxLvl, EmptyRefinement),
                 events |-> <<>>],
                1, maxLvl, fullTopology,
                [DefaultOptions EXCEPT !.sparse = FALSE])

UniformResult(maxLvl, fullTopology, computeMasks) ==
    UniformLoop([levels |-> Resize(levels, maxLvl + 1, EmptyLevel),
                 refinements |-> Resize(refinements, maxLvl, EmptyRefinement),
                 events |-> <<>>],
                1, maxLvl, fullTopology,
                [DefaultOptions EXCEPT !.sparse = FALSE,
                                       !.computeMasks = computeMasks])

RefineUniform(maxLvl, fullTopology, computeMasks) ==
    /\ status = "ok"
    /\ \E baseVertCount \in BaseVertCountReads :
          IF ~(baseVertCount > 0) \/ ~(subdivType = TYPE_CATMARK)
          THEN Abort("RefineUniform")
          ELSE \E st \in {UniformResult(maxLvl, fullTopology, computeMasks)} :
                  /\ isUniform' = TRUE
                  /\ maxLevel' = maxLvl
                  /\ levels' = st.levels
                  /\ refinements' = st.refinements
                  /\ refined' = TRUE
                  /\ lastCall' = Call("RefineUniform",
                                      <<maxLvl, fullTopology, computeMasks>>,
                                      st.events, <<>>)
                  /\ snap' = [valid |-> TRUE, armed |-> FALSE,
                              roundTrip |->
                                  /\ snap.armed
                                  /\ snap.args = <<maxLvl, fullTopology,
                                                   computeMasks>>,
                              shorter |->
                                  /\ snap.armed
                                  /\ maxLvl < snap.args[1]
                                  /\ snap.args[2] = fullTopology
                                  /\ snap.args[3] = computeMasks,
                              args |-> <<maxLvl, fullTopology, computeMasks>>,
                              facade |-> <<TRUE, maxLvl, st.levels,
                                           st.refinements>>]
                  /\ UNCHANGED <<currentBindState, subdivType, status>>

-----------------------------------------------------------------------------
(* RefineAdaptive.                                                          *)

\* The else branch without the two resizes: only _maxLevel is corrected.
TrimMaxLevelOnly(lv, rf, maxLvl) ==
    [maxLevel |-> maxLvl, levels |-> lv, refinements |-> rf]

\* The else branch of the loop: the refinement in progress and its child are
\* removed, maxLvl becomes the last level.
TrimToLevel(lv, rf, maxLvl) ==
    [maxLevel |-> maxLvl,
     levels |-> Resize(lv, maxLvl + 1, EmptyLevel),
     refinements |-> Resize(rf, maxLvl, EmptyRefinement)]

\* A selection that is ended before the analyzer runs.
SelectionEndedFirst(sel, parentLevel) ==
    catmarkFeatureAdaptiveSelector(EndSelection(BeginSelection(sel)),
                                   parentLevel)

\* beginSelection, the analyzer, endSelection on the selector of one step.
Selection(sel, parentLevel) ==
    EndSelection(catmarkFeatureAdaptiveSelector(BeginSelection(sel),
                                                parentLevel))

\* The options of a step left as they were set before the loop.
StepOptionsAsSet(refineOptions) == refineOptions

\* The first statement of the loop body: full topology is kept on at every
\* step.
StepOptions(refineOptions) ==
    [refineOptions EXCEPT !.faceTopologyOnly = FALSE]

\* The loop of RefineAdaptive from iteration i, on st = [maxLevel, levels,
\* refinements, events].
RECURSIVE AdaptiveLoop(_, _, _, _)
AdaptiveLoop(st, i, subdivLevel, refineOptions) ==
    IF i > subdivLevel THEN st
    ELSE LET options == StepOptions(refineOptions)
             parentLevel == st.levels[i]
             refinement == Initialize(i - 1, i)
             initLevels ==
                 [st.levels EXCEPT ![i + 1] = InitializeChild(parentLevel)]
             sel0 == SetPreviousRefinement(
                         NewSelector(i), (i - 1) # 0,
                         IF (i - 1) # 0 THEN st.refinements[i - 1]
                         ELSE EmptyRefinement)
             sel3 == Selection(sel0, parentLevel)
             empty == IsSelectionEmpty(sel3)
             events == st.events \o <<Event("initialize", i, NoArg)>>
                          \o sel3.calls
                          \o <<Event("isSelectionEmpty", i, BoolInt(empty))>>
         IN IF ~empty
            THEN LET res == Refine(refinement, parentLevel, sel3.selected,
                                   options)
                     after ==
                        [maxLevel |-> st.maxLevel,
                         levels |-> [initLevels EXCEPT ![i + 1] = res.child],
                         refinements |->
                             [st.refinements EXCEPT ![i] = res.refinement],
                         events |-> Append(events,
                                           Event("refine", i, NoArg))]
                 IN CHOOSE r \in {AdaptiveLoop(s, i + 1, subdivLevel,
                                               options) : s \in {after}} :
                        TRUE
            ELSE LET trimmed ==
                         TrimToLevel(initLevels,
                                     [st.refinements EXCEPT ![i] = refinement],
                                     i - 1)
                 IN [maxLevel |-> trimmed.maxLevel,
                     levels |-> trimmed.levels,
                     refinements |-> trimmed.refinements,
                     events |-> events]

AdaptiveResult(subdivLevel, fullTopology, computeMasks) ==
    AdaptiveLoop([maxLevel |-> subdivLevel,
                  levels |-> Resize(levels, subdivLevel + 1, EmptyLevel),
                  refinements |->
                      Resize(refinements, subdivLevel, EmptyRefinement),
                  events |-> <<>>],
                 1, subdivLevel,
                 [sparse |-> TRUE, faceTopologyOnly |-> ~fullTopology,
                  computeMasks |-> computeMasks,
                  parentTagging |-> TRUE, childTagging |-> TRUE])

RefineAdaptive(subdivLevel, fullTopology, computeMasks) ==
    /\ status = "ok"
    /\ \E baseVertCount \in BaseVertCountReads :
          IF ~(baseVertCount > 0) \/ ~(subdivType = TYPE_CATMARK)
          THEN Abort("RefineAdaptive")
          ELSE \E st \in {AdaptiveResult(subdivLevel, fullTopology,
                                         computeMasks)} :
                  /\ isUniform' = FALSE
                  /\ maxLevel' = st.maxLevel
                  /\ levels' = st.levels
                  /\ refinements' = st.refinements
                  /\ refined' = TRUE
                  /\ lastCall' = Call("RefineAdaptive",
                                      <<subdivLevel, fullTopology,
                                        computeMasks>>,
                                      st.events, <<>>)
                  /\ snap' = NoSnap
                  /\ UNCHANGED <<currentBindState, subdivType, status>>

-----------------------------------------------------------------------------

DepthArgs == 0..MaxDepthArg

\* The first call made on a freshly populated object, in the adaptive
\* early-termination scenario.
ScenarioCall ==
    /\ lastCall.op = "FactoryFill"
    /\ \E ft \in BOOLEAN, cm \in BOOLEAN :
          RefineAdaptive(ScenarioDepth, ft, cm)

Next ==
    \/ \E desc \in Descriptors : FactoryFill(desc)
    \/ \E k \in DepthArgs, ft \in BOOLEAN, cm \in BOOLEAN :
          RefineUniform(k, ft, cm)
    \/ \E k \in DepthArgs, ft \in BOOLEAN, cm \in BOOLEAN :
          RefineAdaptive(k, ft, cm)
    \/ ScenarioCall
    \/ Unrefine
    \/ Clear
    \/ GetCounts

Spec == Init /\ [][Next]_vars

-----------------------------------------------------------------------------
(* SdcScheme: the mask kernels.  Weights and sharpness values are exact     *)
(* rationals <<numerator, denominator>> in lowest terms, denominator > 0.   *)

Abs(a) == IF a < 0 THEN -a ELSE a

RECURSIVE Gcd(_, _)
Gcd(a, b) == IF b = 0 THEN a ELSE Gcd(b, a % b)

Weight(n, d) ==
    LET g == Gcd(Abs(n), d) IN <<(IF n < 0 THEN -(Abs(n) \div g) ELSE n \div g), d \div g>>

WAdd(a, b) == Weight(a[1] * b[2] + b[1] * a[2], a[2] * b[2])
WSub(a, b) == Weight(a[1] * b[2] - b[1] * a[2], a[2] * b[2])
WMul(a, b) == Weight(a[1] * b[1], a[2] * b[2])
WLe(a, b) == a[1] * b[2] <= b[1] * a[2]
WLt(a, b) == a[1] * b[2] < b[1] * a[2]

RECURSIVE WSum(_)
WSum(s) == IF s = <<>> THEN Weight(0, 1) ELSE WAdd(Head(s), WSum(Tail(s)))

\* The three parallel weight arrays of a mask, each with its count.
Mask(vw, ew, fw) == [vertexWeights |-> vw, edgeWeights |-> ew, faceWeights |-> fw]

MaskSum(m) == WSum(m.vertexWeights \o m.edgeWeights \o m.faceWeights)

RULE_UNKNOWN == "RULE_UNKNOWN"
RULE_SMOOTH == "RULE_SMOOTH"
RULE_DART == "RULE_DART"
RULE_CREASE == "RULE_CREASE"
RULE_CORNER == "RULE_CORNER"

Rules == {RULE_UNKNOWN, RULE_SMOOTH, RULE_DART, RULE_CREASE, RULE_CORNER}

\* SdcCrease on fractional sharpness, Uniform method: one unit of sharpness
\* is lost per level, an infinite sharpness stays infinite.
SubdivideUniformSharpness(s) ==
    IF WLe(Weight(INFINITE, 1), s) THEN s
    ELSE IF WLe(s, Weight(1, 1)) THEN Weight(0, 1) ELSE WSub(s, Weight(1, 1))

\* The crease mask of an edge-vertex: the midpoint of the edge.
assignCreaseMaskForEdge(edge) ==
    Mask(<<Weight(1, 2), Weight(1, 2)>>, <<>>, <<>>)

\* The Catmark smooth mask of an edge-vertex.  A boundary edge takes the
\* crease mask; an interior edge weights its end points 3/8 and spreads 1/4
\* over its faces, per face or per face-opposing vertex.
assignSmoothMaskForEdge(edge) ==
    IF edge.faceCount < 2 THEN assignCreaseMaskForEdge(edge)
    ELSE Mask(<<Weight(3, 8), Weight(3, 8)>>, <<>>,
              IF edge.perOpposingVertex
              THEN [i \in 1..4 |-> Weight(1, 16)]
              ELSE [i \in 1..2 |-> Weight(1, 8)])

\* The corner mask of a vertex-vertex: the vertex itself.
assignCornerMaskForVertex(vertex) ==
    Mask(<<Weight(1, 1)>>, <<>>, <<>>)

ComputeFaceVertexMask(face) ==
    LET vertCount == face.vertCount
        vWeight == Weight(1, vertCount)
    IN  Mask([i \in 1..vertCount |-> vWeight], <<>>, <<>>)

\* A child crease test that takes a sharpness of exactly 1 to decay.
childIsCreaseAboveOne(edge, creaseIsUniform, parentRule) ==
    IF parentRule = RULE_CREASE THEN TRUE
    ELSE IF WLt(Weight(1, 1), edge.sharpness) THEN TRUE
    ELSE IF creaseIsUniform THEN FALSE
    ELSE /\ WLt(Weight(0, 1), edge.childSharpnesses[1])
         /\ WLt(Weight(0, 1), edge.childSharpnesses[2])

\* Whether the child of a crease edge, its rule not given, is a crease.
childIsCrease(edge, creaseIsUniform, parentRule) ==
    IF parentRule = RULE_CREASE THEN TRUE
    ELSE IF WLe(Weight(1, 1), edge.sharpness) THEN TRUE
    ELSE IF creaseIsUniform THEN FALSE
    ELSE /\ WLt(Weight(0, 1), edge.childSharpnesses[1])
         /\ WLt(Weight(0, 1), edge.childSharpnesses[2])

ComputeEdgeVertexMask(edge, creaseIsUniform, parentRule, childRule) ==
    IF \/ parentRule = RULE_SMOOTH
       \/ parentRule = RULE_UNKNOWN /\ WLe(edge.sharpness, Weight(0, 1))
    THEN assignSmoothMaskForEdge(edge)
    ELSE IF childRule = RULE_CREASE
    THEN assignCreaseMaskForEdge(edge)
    ELSE
      IF childRule = RULE_UNKNOWN /\ childIsCrease(edge, creaseIsUniform, parentRule)
      THEN assignCreaseMaskForEdge(edge)
      ELSE
        LET smooth == assignSmoothMaskForEdge(edge)
            pWeight == edge.sharpness
            cWeight == WSub(Weight(1, 1), pWeight)
        IN  Mask([k \in 1..2 |->
                     WAdd(WMul(pWeight, Weight(1, 2)),
                          WMul(cWeight, smooth.vertexWeights[k]))],
                 smooth.edgeWeights,
                 [i \in 1..Len(smooth.faceWeights) |->
                     WMul(smooth.faceWeights[i], cWeight)])

\* SdcCrease::DetermineVertexVertexRule.
DetermineVertexVertexRule(vertexSharpness, valence, edgeSharpness) ==
    LET k == Cardinality({i \in 1..valence : WLt(Weight(0, 1), edgeSharpness[i])})
    IN  IF WLe(Weight(1, 1), vertexSharpness) THEN RULE_CORNER
        ELSE IF k = 0 THEN RULE_SMOOTH
        ELSE IF k = 1 THEN RULE_DART
        ELSE IF k = 2 THEN RULE_CREASE
        ELSE RULE_CORNER

\* SdcCrease::ComputeFractionalWeightAtVertex: a weight in [0,1] answered by
\* the crease algebra for the neighborhood.
ComputeFractionalWeightAtVertex(crease, vertex) == crease.fractionalWeight

\* VERTEX::GetChildSharpnessPerEdge and VERTEX::GetChildSharpness.
GetChildSharpnessPerEdge(vertex) ==
    [i \in 1..vertex.edgeCount |-> SubdivideUniformSharpness(vertex.sharpnessPerEdge[i])]

GetChildSharpness(vertex) == SubdivideUniformSharpness(vertex.sharpness)

\* The Catmark smooth mask of an interior vertex-vertex of valence n.
assignSmoothMaskForVertex(vertex) ==
    LET n == vertex.edgeCount
    IN  Mask(<<Weight(n - 2, n)>>,
             [i \in 1..n |-> Weight(1, n * n)],
             [i \in 1..n |-> Weight(1, n * n)])

\* The Catmark crease mask of a vertex-vertex: 3/4 for the vertex and 1/8
\* for the far end of each of its two sharp edges.
assignCreaseMaskForVertex(vertex, edgeSharpness) ==
    LET n == vertex.edgeCount
        sharp == {i \in 1..n : WLt(Weight(0, 1), edgeSharpness[i])}
        first == CHOOSE i \in sharp : \A j \in sharp : i <= j
        second == CHOOSE i \in sharp \ {first} : \A j \in sharp \ {first} : i <= j
    IN  Mask(<<Weight(3, 4)>>,
             [i \in 1..n |-> IF i \in {first, second} THEN Weight(1, 8) ELSE Weight(0, 1)],
             <<>>)

\* LocalMask::CombineVertexVertexMasks: dst becomes
\* dstCoeff * dst + thisCoeff * this, for the weights this mask has.
CombineVertexVertexMasks(this, thisCoeff, dstCoeff, dst) ==
    LET combined(mine, theirs) ==
            IF Len(mine) = 0 THEN theirs
            ELSE IF Len(theirs) = 0
            THEN [i \in 1..Len(mine) |-> WMul(thisCoeff, mine[i])]
            ELSE [i \in 1..Len(theirs) |->
                     IF i <= Len(mine)
                     THEN WAdd(WMul(dstCoeff, theirs[i]), WMul(thisCoeff, mine[i]))
                     ELSE theirs[i]]
    IN  Mask(<<WAdd(WMul(dstCoeff, dst.vertexWeights[1]),
                    WMul(thisCoeff, this.vertexWeights[1]))>>,
             combined(this.edgeWeights, dst.edgeWeights),
             combined(this.faceWeights, dst.faceWeights))

\* The mask assigned for a rule that is known.
MaskForRule(rule, vertex, edgeSharpness) ==
    IF rule \in {RULE_SMOOTH, RULE_DART} THEN assignSmoothMaskForVertex(vertex)
    ELSE IF rule = RULE_CREASE THEN assignCreaseMaskForVertex(vertex, edgeSharpness)
    ELSE assignCornerMaskForVertex(vertex)

\* The last statements of ComputeVertexVertexMask with the two coefficients
\* exchanged.
BlendExchanged(cMask, pWeight, cWeight, mask) ==
    CombineVertexVertexMasks(cMask, pWeight, cWeight, mask)

\* The last statements of ComputeVertexVertexMask: the parent mask is scaled
\* by pWeight and the child mask by cWeight.
Blend(cMask, pWeight, cWeight, mask) ==
    CombineVertexVertexMasks(cMask, cWeight, pWeight, mask)

\* The child rule left to be determined from the child sharpness whenever it
\* is not given.
ChildRuleDeferred(pRuleArg, cRuleArg) == cRuleArg

\* If unspecified, the child rule is assigned to match the parent rule if
\* that is specified.
ChildRuleGiven(pRuleArg, cRuleArg) ==
    IF cRuleArg = RULE_UNKNOWN /\ pRuleArg # RULE_UNKNOWN THEN pRuleArg ELSE cRuleArg

ComputeVertexVertexMask(vertex, crease, pRuleArg, cRuleArg) ==
    IF pRuleArg \in {RULE_SMOOTH, RULE_DART} THEN assignSmoothMaskForVertex(vertex)
    ELSE
      LET cRuleGiven == ChildRuleGiven(pRuleArg, cRuleArg)
          valence == vertex.edgeCount
          pVertexSharpness == vertex.sharpness
          pEdgeSharpness == vertex.sharpnessPerEdge
          pRule == IF pRuleArg = RULE_UNKNOWN
                   THEN DetermineVertexVertexRule(pVertexSharpness, valence, pEdgeSharpness)
                   ELSE pRuleArg
      IN
      IF pRule \in {RULE_SMOOTH, RULE_DART} THEN assignSmoothMaskForVertex(vertex)
      ELSE
        LET mask == MaskForRule(pRule, vertex, pEdgeSharpness)
            cEdgeSharpness == GetChildSharpnessPerEdge(vertex)
            cVertexSharpness == GetChildSharpness(vertex)
            cRule == IF cRuleGiven = RULE_UNKNOWN
                     THEN DetermineVertexVertexRule(cVertexSharpness, valence, cEdgeSharpness)
                     ELSE cRuleGiven
        IN
        IF cRuleGiven = pRule \/ cRule = pRule THEN mask
        ELSE
          LET cMask == MaskForRule(cRule, vertex, cEdgeSharpness)
              pWeight == ComputeFractionalWeightAtVertex(crease, vertex)
              cWeight == WSub(Weight(1, 1), pWeight)
          IN  Blend(cMask, pWeight, cWeight, mask)

-----------------------------------------------------------------------------
(* The mask kernels applied to neighborhoods drawn from bounded sets.       *)

EdgeSharpnessValues ==
    {Weight(0, 1), Weight(1, 4), Weight(1, 2), Weight(1, 1), Weight(3, 2),
     Weight(2, 1), Weight(INFINITE, 1)}

VertexSharpnessValues == {Weight(0, 1), Weight(1, 2), Weight(2, 1)}

\* The answers of the crease algebra for the fractional weight.
FractionalWeights == {Weight(0, 1), Weight(1, 4), Weight(1, 2), Weight(1, 1)}

FaceNeighborhoods == {[kind |-> "FACE", vertCount |-> n] : n \in 3..(MaxValence + 1)}

\* The rules ComputeEdgeVertexMask takes: Corner for neither argument, Dart
\* for the child only.
EdgeParentRules == {RULE_UNKNOWN, RULE_SMOOTH, RULE_CREASE}
EdgeChildRules == {RULE_UNKNOWN, RULE_SMOOTH, RULE_DART, RULE_CREASE}

EdgeNeighborhood(s, fc, pov, cs, uni, pr, cr, lvl, root) ==
    [kind |-> "EDGE", sharpness |-> s, faceCount |-> fc,
     perOpposingVertex |-> pov, childSharpnesses |-> cs,
     creaseIsUniform |-> uni, parentRule |-> pr, childRule |-> cr,
     level |-> lvl, rootSharpness |-> root]

EdgeNeighborhoods ==
    {EdgeNeighborhood(s, fc, pov, cs, uni, pr, cr, 0, s) :
        s \in EdgeSharpnessValues, fc \in 1..2, pov \in BOOLEAN,
        cs \in {<<Weight(0, 1), Weight(0, 1)>>, <<Weight(1, 2), Weight(0, 1)>>,
                <<Weight(1, 2), Weight(1, 2)>>},
        uni \in BOOLEAN, pr \in EdgeParentRules, cr \in EdgeChildRules}

\* The rules ComputeVertexVertexMask takes: none, the first, or both.
VertexRulePairs ==
    {<<p, c>> \in Rules \X Rules : p = RULE_UNKNOWN => c = RULE_UNKNOWN}

SharpEdgeCount(edgeSharpness) ==
    Cardinality({i \in DOMAIN edgeSharpness : WLt(Weight(0, 1), edgeSharpness[i])})

\* A rule passed as Crease comes with the two sharp edges of the crease.
CreaseRulesHaveCrease(v) ==
    /\ v.pRule = RULE_CREASE => SharpEdgeCount(v.sharpnessPerEdge) = 2
    /\ (v.cRule = RULE_CREASE /\ v.pRule # RULE_CREASE)
          => SharpEdgeCount(GetChildSharpnessPerEdge(v)) = 2

VertexNeighborhoods ==
    {v \in {[kind |-> "VERTEX", edgeCount |-> Len(es), sharpness |-> vs,
             sharpnessPerEdge |-> es, fractionalWeight |-> w,
             pRule |-> r[1], cRule |-> r[2]] :
               es \in UNION {[1..n -> VertexSharpnessValues] : n \in 3..MaxValence},
               vs \in VertexSharpnessValues, w \in FractionalWeights,
               r \in VertexRulePairs} :
        CreaseRulesHaveCrease(v)}

\* Pairs of vertex-vertex masks of a vertex of valence 3 with the two
\* coefficients of a combination: the smooth, crease and corner masks and a
\* mask with face weights only.
CombinedMasks ==
    LET v == [edgeCount |-> 3]
    IN  {assignSmoothMaskForVertex(v),
         assignCreaseMaskForVertex(v, <<Weight(1, 1), Weight(1, 1), Weight(0, 1)>>),
         assignCornerMaskForVertex(v),
         Mask(<<Weight(1, 2)>>, <<>>, [i \in 1..3 |-> Weight(1, 6)])}

MaskPairs ==
    {[kind |-> "MASKS", this |-> a, dst |-> b, thisCoeff |-> c,
      dstCoeff |-> WSub(Weight(1, 1), c)] :
        a \in CombinedMasks, b \in CombinedMasks, c \in FractionalWeights}

Neighborhoods ==
    FaceNeighborhoods \cup EdgeNeighborhoods \cup VertexNeighborhoods
        \cup MaskPairs

Neighborhood == lastCall.args[1]

MaskInit ==
    /\ subdivType = TYPE_CATMARK
    /\ isUniform = TRUE
    /\ maxLevel = 0
    /\ levels = <<EmptyLevel>>
    /\ refinements = <<>>
    /\ status = "ok"
    /\ lastCall \in {Call("Neighborhood", <<n>>, <<>>, <<>>) : n \in Neighborhoods}
    /\ refined = FALSE
    /\ snap = NoSnap
    /\ currentBindState = BindState

FaceVertexMask ==
    /\ lastCall.op = "Neighborhood" /\ Neighborhood.kind = "FACE"
    /\ lastCall' = Call("ComputeFaceVertexMask", lastCall.args, <<>>,
                        ComputeFaceVertexMask(Neighborhood))
    /\ UNCHANGED <<currentBindState, subdivType, isUniform, maxLevel, levels, refinements,
                   status, refined, snap>>

EdgeVertexMask ==
    /\ lastCall.op = "Neighborhood" /\ Neighborhood.kind = "EDGE"
    /\ lastCall' = Call("ComputeEdgeVertexMask", lastCall.args, <<>>,
                        ComputeEdgeVertexMask(Neighborhood, Neighborhood.creaseIsUniform,
                            Neighborhood.parentRule, Neighborhood.childRule))
    /\ UNCHANGED <<currentBindState, subdivType, isUniform, maxLevel, levels, refinements,
                   status, refined, snap>>

VertexVertexMask ==
    /\ lastCall.op = "Neighborhood" /\ Neighborhood.kind = "VERTEX"
    /\ lastCall' = Call("ComputeVertexVertexMask", lastCall.args, <<>>,
                        ComputeVertexVertexMask(Neighborhood, Neighborhood,
                            Neighborhood.pRule, Neighborhood.cRule))
    /\ UNCHANGED <<currentBindState, subdivType, isUniform, maxLevel, levels, refinements,
                   status, refined, snap>>

\* The same edge one level down: its sharpness subdivided by the Uniform
\* method, its rules left to be determined.
SubdivideEdge ==
    /\ lastCall.op = "ComputeEdgeVertexMask"
    /\ Neighborhood.creaseIsUniform
    /\ Neighborhood.level < MaxMaskLevel
    /\ \E s \in {SubdivideUniformSharpness(Neighborhood.sharpness)} :
          lastCall' = Call("Neighborhood",
                           <<EdgeNeighborhood(s, Neighborhood.faceCount,
                                 Neighborhood.perOpposingVertex,
                                 <<SubdivideUniformSharpness(s), SubdivideUniformSharpness(s)>>,
                                 TRUE, RULE_UNKNOWN, RULE_UNKNOWN,
                                 Neighborhood.level + 1, Neighborhood.rootSharpness)>>,
                           <<>>, <<>>)
    /\ UNCHANGED <<currentBindState, subdivType, isUniform, maxLevel, levels, refinements,
                   status, refined, snap>>

\* LocalMask::CombineVertexVertexMasks on a pair of masks.
CombineMasks ==
    /\ lastCall.op = "Neighborhood" /\ Neighborhood.kind = "MASKS"
    /\ lastCall' = Call("CombineVertexVertexMasks", lastCall.args, <<>>,
                        CombineVertexVertexMasks(Neighborhood.this,
                            Neighborhood.thisCoeff, Neighborhood.dstCoeff,
                            Neighborhood.dst))
    /\ UNCHANGED <<currentBindState, subdivType, isUniform, maxLevel, levels, refinements,
                   status, refined, snap>>

MaskNext ==
    \/ FaceVertexMask
    \/ EdgeVertexMask
    \/ VertexVertexMask
    \/ SubdivideEdge
    \/ CombineMasks

MaskSpec == MaskInit /\ [][MaskNext]_vars

-----------------------------------------------------------------------------
(* The analyzer applied to base levels drawn from a family of control       *)
(* meshes: a quad <<1, 2, 3, 4>> with k[i] further quads attached to its    *)
(* i-th edge (an edge with more than one of them is non-manifold), one      *)
(* vertex that no face refers to, and at most one sharp vertex.             *)

FlapsBefore(k, i) == SumSeq([m \in 1..(i - 1) |-> k[m]])

FlapMeshFaces(k) ==
    [n \in 1..(1 + SumSeq(k)) |->
        IF n = 1 THEN <<1, 2, 3, 4>>
        ELSE LET t == n - 1
                 i == CHOOSE j \in 1..4 :
                         FlapsBefore(k, j) < t /\ t <= FlapsBefore(k, j) + k[j]
             IN  <<NextIdx(i, 4), i, 4 + 2 * t - 1, 4 + 2 * t>>]

FlapMeshVertices(k) == 4 + 2 * SumSeq(k) + 1

FlapMesh(k, creases, corners) ==
    [numVertices |-> FlapMeshVertices(k), faces |-> FlapMeshFaces(k),
     creases |-> creases, corners |-> corners]

\* Without sharpness, with one sharp vertex (vertex 1 or the unreferenced
\* one), or with the edge (1, 2) of sharpness 2.
FlapMeshes ==
    UNION {{FlapMesh(k, {}, c) :
               c \in {{}} \cup {{<<v, s>>} : v \in {1, FlapMeshVertices(k)},
                                             s \in {1, INFINITE}}}
           \cup {FlapMesh(k, {<<1, 2, 2>>}, {})} :
           k \in [1..4 -> 0..MaxFlaps]}

AnalyzerInit ==
    /\ subdivType = TYPE_CATMARK
    /\ isUniform = TRUE
    /\ maxLevel = 0
    /\ \E desc \in FlapMeshes :
          /\ levels = <<FactoryLevel(desc)>>
          /\ lastCall = Call("FactoryFill", <<desc>>, <<>>, <<>>)
    /\ refinements = <<>>
    /\ status = "ok"
    /\ refined = FALSE
    /\ snap = NoSnap
    /\ currentBindState = BindState

\* catmarkFeatureAdaptiveSelector on the selector of the first step of
\* RefineAdaptive, between its beginSelection and endSelection.
Analyze ==
    /\ lastCall.op = "FactoryFill"
    /\ \E sel \in {catmarkFeatureAdaptiveSelector(
                      BeginSelection(SetPreviousRefinement(
                          NewSelector(1), FALSE, EmptyRefinement)),
                      levels[1])} :
          lastCall' = Call("catmarkFeatureAdaptiveSelector", <<>>,
                           sel.calls, sel.selected)
    /\ UNCHANGED <<currentBindState, subdivType, isUniform, maxLevel, levels, refinements,
                   status, refined, snap>>

\* RefineAdaptive on the smaller of the meshes: the analyzer runs on the
\* base level and on its sparse child.
AnalyzeLevels ==
    /\ lastCall.op = "FactoryFill"
    /\ levels[1].faceCount <= MaxRefinedFaces
    /\ RefineAdaptive(2, TRUE, FALSE)

AnalyzerNext == Analyze \/ AnalyzeLevels

AnalyzerSpec == AnalyzerInit /\ [][AnalyzerNext]_vars

-----------------------------------------------------------------------------
(* OsdGLSLTransformFeedbackComputeController: Refine, bind and unbind on    *)
(* the bind state of one controller.  The calls made by the last Refine are *)
(* kept in lastCall.events, each with the bind state or the argument it     *)
(* was made with.                                                           *)

GLCall(name, arg) == [call |-> name, arg |-> arg]

\* A vertex buffer object: the pointer passed to Refine, the id BindVBO
\* gives and GetNumElements.
VertexBuffer(address, vbo, numElements) ==
    [isNull |-> FALSE, address |-> address, vbo |-> vbo,
     numElements |-> numElements]

NullBuffer == [isNull |-> TRUE, address |-> 0, vbo |-> 0, numElements |-> 0]

BindVBO(buffer) == buffer.vbo

\* The kernel bundle of a configuration: the registry holds one bundle for
\* each pair of descriptors and interleaving.
getKernels(vertexDesc, varyingDesc, interleaved) ==
    [isNull |-> FALSE, vertexDesc |-> vertexDesc,
     varyingDesc |-> varyingDesc, interleaved |-> interleaved]

\* The descriptor given, or the one of a tightly packed buffer.
DescriptorOf(buffer, desc) ==
    IF ~desc.isNull THEN desc
    ELSE LET numElements == IF ~buffer.isNull THEN buffer.numElements ELSE 0
         IN  OsdVertexBufferDescriptor(0, numElements, numElements)

bind(vertex, varying, vertexDesc, varyingDesc) ==
    LET vertexDescBound == DescriptorOf(vertex, vertexDesc)
        varyingDescBound == DescriptorOf(varying, varyingDesc)
        interleaved == ~vertex.isNull /\ ~varying.isNull /\ vertex = varying
    IN  [vertexBuffer |-> IF ~vertex.isNull THEN BindVBO(vertex) ELSE 0,
         varyingBuffer |-> IF ~varying.isNull THEN BindVBO(varying) ELSE 0,
         vertexDesc |-> vertexDescBound,
         varyingDesc |-> varyingDescBound,
         kernelBundle |-> getKernels(vertexDescBound, varyingDescBound,
                                     interleaved)]

\* BindState::Reset: the kernel bundle is kept.
Reset(state) ==
    [state EXCEPT !.vertexBuffer = 0, !.varyingBuffer = 0,
                  !.vertexDesc = ResetDescriptor,
                  !.varyingDesc = ResetDescriptor]

\* unbind that releases the resources without resetting the bind state.
unbindResourcesOnly(state) == state

unbind(state) == Reset(state)

\* The kernels of the batches of a batch vector.
Kernels == {"CatmarkFaceVertices", "CatmarkEdgeVertices"}

BatchVectors == UNION {[1..n -> Kernels] : n \in 0..MaxBatches}

Buffers == {NullBuffer, VertexBuffer(1, 1, 3), VertexBuffer(2, 2, 4)}

VertexDescs == {NullDescriptor, OsdVertexBufferDescriptor(0, 3, 7)}

VaryingDescs == {NullDescriptor, OsdVertexBufferDescriptor(3, 4, 7)}

\* Refine(context, batches, vertexBuffer, varyingBuffer, vertexDesc,
\* varyingDesc).
ControllerRefine(batches, vertexBuffer, varyingBuffer, vertexDesc, varyingDesc) ==
    LET args == <<batches, vertexBuffer, varyingBuffer, vertexDesc, varyingDesc>>
    IN
    /\ IF batches = <<>>
       THEN /\ lastCall' = Call("Refine", args, <<>>, <<>>)
            /\ UNCHANGED currentBindState
       ELSE LET bound == bind(vertexBuffer, varyingBuffer, vertexDesc,
                              varyingDesc)
                unbound == unbind(bound)
            IN  /\ currentBindState' = unbound
                /\ lastCall' =
                      Call("Refine", args,
                           <<GLCall("bind", bound),
                             GLCall("BindTableTextures", bound.kernelBundle),
                             GLCall("FarDispatcher::Refine", batches),
                             GLCall("UnbindTableTextures", bound),
                             GLCall("unbind", unbound)>>,
                           <<>>)
    /\ UNCHANGED <<subdivType, isUniform, maxLevel, levels, refinements,
                   status, refined, snap>>

ControllerInit ==
    /\ subdivType = TYPE_CATMARK
    /\ isUniform = TRUE
    /\ maxLevel = 0
    /\ levels = <<EmptyLevel>>
    /\ refinements = <<>>
    /\ status = "ok"
    /\ lastCall = Call("OsdGLSLTransformFeedbackComputeController",
                       <<>>, <<>>, <<>>)
    /\ refined = FALSE
    /\ snap = NoSnap
    /\ currentBindState = BindState

ControllerNext ==
    \E batches \in BatchVectors, vertexBuffer \in Buffers,
       varyingBuffer \in Buffers, vertexDesc \in VertexDescs,
       varyingDesc \in VaryingDescs :
          ControllerRefine(batches, vertexBuffer, varyingBuffer, vertexDesc,
                           varyingDesc)

ControllerSpec == ControllerInit /\ [][ControllerNext]_vars

-----------------------------------------------------------------------------
(* Properties of the facade.                                                *)

RefineOps == {"RefineUniform", "RefineAdaptive"}

Facade == <<isUniform, maxLevel, levels, refinements>>

\* A Refine* call has just returned (no assert failed).
Returned(op) == status = "ok" /\ lastCall.op = op

\* The events of the last call with the given name.
EventsNamed(name) ==
    {n \in 1..Len(lastCall.events) : lastCall.events[n].ev = name}

\* C1, as stated: in every reachable state, Clear included, the level stack
\* has length at least 1 and the refinement stack is one shorter.
C1_StackLengths ==
    /\ Len(levels) >= 1
    /\ Len(refinements) = Len(levels) - 1

\* C1, amended: in every reachable state either both stacks are empty (the
\* state Clear leaves) or the level stack has length at least 1 and the
\* refinement stack is one shorter.
C1_StackLengthsOrCleared ==
    \/ Len(levels) = 0 /\ Len(refinements) = 0
    \/ Len(levels) >= 1 /\ Len(refinements) = Len(levels) - 1

\* Reached: a populated object refined to three levels, then unrefined.
C1_Witness ==
    /\ lastCall.op = "Unrefine"
    /\ snap.armed
    /\ Len(snap.facade[3]) = 3
    /\ Len(levels) = 1
    /\ levels[1].vertCount > 0

\* C2: after RefineUniform(maxLevel, fullTopology, computeMasks) returns,
\* the level stack has maxLevel + 1 levels, the refinement stack maxLevel
\* refinements, and each Refinement[i-1] has been initialized with parent
\* Level[i-1] and child Level[i] and refined with _sparse = false and
\* _computeMasks = computeMasks.
C2_UniformStacks ==
    Returned("RefineUniform") =>
        /\ Len(levels) = lastCall.args[1] + 1
        /\ Len(refinements) = lastCall.args[1]
        /\ \A i \in 1..lastCall.args[1] :
              /\ refinements[i].initialized
              /\ refinements[i].parent = i - 1
              /\ refinements[i].child = i
              /\ refinements[i].refined
              /\ refinements[i].options.sparse = FALSE
              /\ refinements[i].options.computeMasks = lastCall.args[3]
              /\ refinements[i].hasMasks = lastCall.args[3]
              /\ levels[i + 1].depth = levels[i].depth + 1

\* Reached: RefineUniform(2, ., TRUE) has returned on a populated base.
C2_Witness ==
    /\ Returned("RefineUniform")
    /\ lastCall.args[1] = 2
    /\ lastCall.args[3] = TRUE
    /\ levels[1].vertCount > 0
    /\ levels[3].faceCount > 0

\* C3: after RefineUniform(maxLevel, fullTopology, .) returns, the
\* refinement step of level i was run with _faceTopologyOnly true exactly
\* when fullTopology is false and i = maxLevel; every other step was run
\* with _faceTopologyOnly false.
C3_FaceTopologyOnly ==
    Returned("RefineUniform") =>
        \A i \in 1..Len(refinements) :
            refinements[i].options.faceTopologyOnly
                = (~lastCall.args[2] /\ i = lastCall.args[1])

\* Reached: RefineUniform(2, FALSE, .) returned on a populated base; level 1
\* has full topology, level 2 faces only.
C3_Witness ==
    /\ Returned("RefineUniform")
    /\ lastCall.args[1] = 2
    /\ lastCall.args[2] = FALSE
    /\ levels[1].vertCount > 0
    /\ ~refinements[1].options.faceTopologyOnly
    /\ refinements[2].options.faceTopologyOnly
    /\ levels[2].edgeVerts # <<>>
    /\ levels[3].edgeVerts = <<>>
    /\ levels[3].faceVerts # <<>>

\* The steps of the last call at which the named call was made.
StepsOf(name) == {lastCall.events[n].step : n \in EventsNamed(name)}

\* The steps of the last call at which isSelectionEmpty returned true.
EmptySteps ==
    {lastCall.events[n].step :
        n \in {m \in EventsNamed("isSelectionEmpty") :
                  lastCall.events[m].arg = 1}}

\* C4: after RefineAdaptive(subdivLevel, ...) returns: if the selection of
\* step i was empty, step i was not refined, no later step was attempted,
\* and the level stack has length i, the refinement stack length i - 1 and
\* maxLevel = i - 1; if no selection was empty the stacks have lengths
\* subdivLevel + 1 and subdivLevel.  In both cases every refinement left in
\* the stack is initialized and refined, and its child level is not empty.
C4_AdaptiveTruncation ==
    Returned("RefineAdaptive") =>
        /\ \A i \in EmptySteps :
              /\ i \notin StepsOf("refine")
              /\ \A n \in 1..Len(lastCall.events) :
                    lastCall.events[n].step <= i
              /\ Len(levels) = i
              /\ Len(refinements) = i - 1
              /\ maxLevel = i - 1
        /\ EmptySteps = {} =>
              /\ Len(levels) = lastCall.args[1] + 1
              /\ Len(refinements) = lastCall.args[1]
        /\ \A j \in 1..Len(refinements) :
              /\ refinements[j].initialized
              /\ refinements[j].refined
              /\ levels[j + 1].vertCount > 0
              /\ levels[j + 1].faceCount > 0

\* Reached: RefineAdaptive with subdivLevel >= 2 on a populated base whose
\* selection was empty at step 2: two levels and one refinement are left.
C4_Witness ==
    /\ Returned("RefineAdaptive")
    /\ lastCall.args[1] >= 2
    /\ EmptySteps = {2}
    /\ levels[1].vertCount > 0
    /\ Len(levels) = 2
    /\ refinements[1].refined

\* A closed regular quad grid: every face a quad, every vertex with four
\* edges and four faces, every edge between two faces, no sharpness.
IsRegularQuadGrid(L) ==
    /\ L.faceCount > 0
    /\ \A f \in 1..L.faceCount : Len(L.faceVerts[f]) = 4
    /\ \A v \in 1..L.vertCount :
          /\ Len(L.vertEdges[v]) = 4
          /\ Len(L.vertFaces[v]) = 4
          /\ L.vertSharpness[v] = 0
    /\ \A e \in 1..L.edgeCount :
          /\ Len(L.edgeFaces[e]) = 2
          /\ L.edgeSharpness[e] = 0

\* C5: on a base level that is a regular quad grid, RefineAdaptive(5) (and
\* RefineAdaptive(k) for every other k >= 1) selects nothing in its first
\* analyzer pass and returns with maxLevel = 0, one level, no refinement.
C5_RegularGridSelectsNothing ==
    (/\ Returned("RefineAdaptive")
     /\ lastCall.args[1] >= 1
     /\ IsRegularQuadGrid(levels[1]))
    => /\ EmptySteps = {1}
       /\ EventsNamed("selectFace") = {}
       /\ EventsNamed("selectVertexFaces") = {}
       /\ maxLevel = 0
       /\ Len(levels) = 1
       /\ Len(refinements) = 0

\* Reached: RefineAdaptive(5) has returned on a regular quad grid.
C5_Witness ==
    /\ Returned("RefineAdaptive")
    /\ lastCall.args[1] = ScenarioDepth
    /\ IsRegularQuadGrid(levels[1])
    /\ StepsOf("endSelection") = {1}

\* C6, as stated: Unrefine, in any reachable state, leaves the level stack
\* with length exactly 1, the refinement stack empty and Level[0] as it was.
C6_UnrefineLeavesOneLevel ==
    [][lastCall'.op = "Unrefine" =>
          /\ Len(levels') = 1
          /\ refinements' = <<>>
          /\ Len(levels) >= 1 => levels'[1] = levels[1]]_vars

\* C6, amended: Unrefine leaves the refinement stack empty; a level stack
\* that was not empty is left with length exactly 1 and Level[0] as it was;
\* a level stack that was empty (after Clear) is left empty.
C6_UnrefineKeepsBase ==
    [][lastCall'.op = "Unrefine" =>
          /\ refinements' = <<>>
          /\ IF Len(levels) >= 1
             THEN Len(levels') = 1 /\ levels'[1] = levels[1]
             ELSE levels' = <<>>]_vars

\* Reached: Unrefine after a RefineAdaptive that was truncated at step 2.
C6_Witness ==
    /\ lastCall.op = "Unrefine"
    /\ ~isUniform
    /\ maxLevel = 1
    /\ Len(levels) = 1
    /\ levels[1].vertCount > 0
    /\ refinements = <<>>

\* C7: GetVertCount, GetEdgeCount and GetFaceCount return the sums of the
\* per-level counts over the levels in the stack (0 when it is empty), and
\* calling them changes no member.
C7_Aggregates ==
    [][lastCall'.op = "GetCounts" =>
          /\ UNCHANGED <<subdivType, isUniform, maxLevel, levels,
                         refinements, status>>
          /\ lastCall'.result =
                <<SumSeq([i \in 1..Len(levels) |-> levels[i].vertCount]),
                  SumSeq([i \in 1..Len(levels) |-> levels[i].edgeCount]),
                  SumSeq([i \in 1..Len(levels) |-> levels[i].faceCount])>>
         ]_vars

\* Reached: the three accessors called on a stack of three populated levels.
C7_Witness ==
    /\ lastCall.op = "GetCounts"
    /\ Len(levels) = 3
    /\ levels[3].vertCount > 0
    /\ lastCall.result[1]
          = levels[1].vertCount + levels[2].vertCount + levels[3].vertCount
    /\ lastCall.result[1] > levels[1].vertCount

\* C8, as stated: a RefineUniform or RefineAdaptive call made while the base
\* level is not populated (never filled, or after Clear), or on a scheme
\* other than Catmark, ends in a failed assert with isUniform, maxLevel and
\* both stacks unmodified.
C8_AssertBeforeModification ==
    [][(/\ lastCall'.op \in RefineOps
        /\ \/ Len(levels) = 0
           \/ levels[1].vertCount = 0
           \/ subdivType # TYPE_CATMARK)
       => /\ status' = "aborted"
          /\ UNCHANGED Facade]_vars

\* C9, as stated: a RefineUniform or RefineAdaptive call made after a
\* previous one, with no Unrefine in between, ends in a failed assert and
\* does not resize or rebuild the stacks.
C9_SecondRefineAsserts ==
    [][(refined /\ lastCall'.op \in RefineOps)
       => /\ status' = "aborted"
          /\ UNCHANGED <<levels, refinements>>]_vars

\* C10: RefineUniform(k, ...); Unrefine; RefineUniform(k, ...) with the same
\* arguments, the first call made on a populated base (snap holds the state
\* it left): the second call returns, and leaves isUniform, maxLevel, every
\* level and every refinement as the first call left them.
C10_RoundTrip ==
    [][(/\ snap.armed
        /\ snap.facade[3][1].vertCount > 0
        /\ lastCall'.op = "RefineUniform")
       => /\ status' = "ok"
          /\ lastCall'.args = snap.args => Facade' = snap.facade]_vars

\* Reached: the second RefineUniform(2, ...) of such a round trip returned.
C10_Witness ==
    /\ Returned("RefineUniform")
    /\ snap.roundTrip
    /\ lastCall.args[1] = 2
    /\ levels[1].vertCount > 0
    /\ levels[3].faceCount > 0

\* A RefineUniform(j, ...) step made right after RefineUniform(k, ...);
\* Unrefine, with j < k, from 1, and the same flags, the first call made on
\* a populated base.
ShorterAgain ==
    /\ snap.armed
    /\ snap.facade[3][1].vertCount > 0
    /\ lastCall'.op = "RefineUniform"
    /\ status' = "ok"
    /\ lastCall'.args[1] >= 1
    /\ lastCall'.args[1] < snap.args[1]
    /\ lastCall'.args[2] = snap.args[2]
    /\ lastCall'.args[3] = snap.args[3]

\* C11, as stated: for j < k and the same flags, Level[j] and
\* Refinement[j-1] of RefineUniform(k, ...) equal Level[j] and
\* Refinement[j-1] of RefineUniform(j, ...) from the same base level,
\* including which tables of Level[j] are populated.
C11_PrefixEqual ==
    [][ShorterAgain =>
          LET j == lastCall'.args[1]
          IN /\ levels'[j + 1] = snap.facade[3][j + 1]
             /\ refinements'[j] = snap.facade[4][j]]_vars

\* C11, amended: with fullTopology true, Level[j] and Refinement[j-1] of the
\* two calls are equal.  With fullTopology false, RefineUniform(j, ...) runs
\* Refinement[j-1] with _faceTopologyOnly true and RefineUniform(k, ...)
\* runs it with false: the two Level[j] have the same component counts,
\* face-vertex lists and sharpness, the two refinements differ in that
\* option only, and the levels and refinements below j are equal.
C11_PrefixEqualFullTopology ==
    [][ShorterAgain =>
          LET j == lastCall'.args[1]
              mine == levels'[j + 1]
              theirs == snap.facade[3][j + 1]
          IN /\ \A i \in 1..j : levels'[i] = snap.facade[3][i]
             /\ \A i \in 1..(j - 1) : refinements'[i] = snap.facade[4][i]
             /\ IF lastCall'.args[2]
                THEN /\ mine = theirs
                     /\ refinements'[j] = snap.facade[4][j]
                ELSE /\ refinements'[j].options.faceTopologyOnly
                     /\ ~snap.facade[4][j].options.faceTopologyOnly
                     /\ [refinements'[j] EXCEPT
                            !.options.faceTopologyOnly = FALSE]
                           = snap.facade[4][j]
                     /\ mine.faceVerts = theirs.faceVerts
                     /\ mine.faceCount = theirs.faceCount
                     /\ mine.edgeCount = theirs.edgeCount
                     /\ mine.vertCount = theirs.vertCount
                     /\ mine.edgeSharpness = theirs.edgeSharpness
                     /\ mine.vertSharpness = theirs.vertSharpness
                     /\ mine # theirs]_vars

\* Reached: RefineUniform(2, TRUE, .); Unrefine; RefineUniform(1, TRUE, .)
\* has returned on a populated base.
C11_Witness ==
    /\ Returned("RefineUniform")
    /\ snap.shorter
    /\ lastCall.args[1] = 1
    /\ lastCall.args[2] = TRUE
    /\ levels[2].edgeVerts # <<>>

\* The face-edge relation of one level: every face has as many edges as
\* vertices, and every edge of a face lists that face.
FaceEdgeConsistent(L) ==
    \A f \in 1..L.faceCount :
        LET fe == IF f \in DOMAIN L.faceEdges THEN L.faceEdges[f] ELSE <<>>
        IN /\ Len(L.faceVerts[f]) = Len(fe)
           /\ \A i \in 1..Len(fe) :
                 /\ fe[i] \in DOMAIN L.edgeFaces
                 /\ f \in Range(L.edgeFaces[fe[i]])

\* A RefineUniform or RefineAdaptive call has just returned.
RefineReturned == Returned("RefineUniform") \/ Returned("RefineAdaptive")

\* C12, as stated: when RefineUniform or RefineAdaptive returns, for every
\* value of fullTopology, every level in the stack has, for every face f,
\* as many faceEdges as faceVerts and f in the edgeFaces of each of them.
C12_FaceEdgeTables ==
    RefineReturned =>
        \A i \in 1..Len(levels) : FaceEdgeConsistent(levels[i])

\* The level RefineUniform built with _faceTopologyOnly true: the last one
\* when fullTopology is false and maxLevel >= 1.
IsFaceOnlyLevel(i) ==
    /\ Returned("RefineUniform")
    /\ ~lastCall.args[2]
    /\ lastCall.args[1] >= 1
    /\ i = lastCall.args[1] + 1

\* C12, amended: the relation holds on every level in the stack except the
\* terminal level of a RefineUniform with fullTopology false, which has
\* face-vertex lists and no faceEdges or edgeFaces at all.
C12_FaceEdgeTablesWhereBuilt ==
    RefineReturned =>
        \A i \in 1..Len(levels) :
            IF IsFaceOnlyLevel(i)
            THEN /\ levels[i].faceEdges = <<>>
                 /\ levels[i].edgeFaces = <<>>
                 /\ Len(levels[i].faceVerts) = levels[i].faceCount
            ELSE FaceEdgeConsistent(levels[i])

\* Reached: RefineAdaptive(2, FALSE, .) returned with three populated
\* levels, all with the face-edge relation.
C12_Witness ==
    /\ Returned("RefineAdaptive")
    /\ lastCall.args[2] = FALSE
    /\ Len(levels) = 3
    /\ levels[3].faceCount > 0
    /\ FaceEdgeConsistent(levels[3])
    /\ levels[3].faceEdges # <<>>

-----------------------------------------------------------------------------
(* Properties of the mask kernels.                                          *)

MaskKernels ==
    {"ComputeFaceVertexMask", "ComputeEdgeVertexMask", "ComputeVertexVertexMask"}

Computed(kernel) == lastCall.op = kernel

\* C13: every mask the three kernels compute, for every neighborhood, every
\* non-negative sharpness and every pair of rules the kernel takes, has
\* weights that sum to 1.
C13_MasksSumToOne ==
    lastCall.op \in MaskKernels => MaskSum(lastCall.result) = Weight(1, 1)

\* The rules of a vertex neighborhood and of its child, as given or as
\* determined from the sharpness values.
ParentRuleOf(v) ==
    IF v.pRule # RULE_UNKNOWN THEN v.pRule
    ELSE DetermineVertexVertexRule(v.sharpness, v.edgeCount, v.sharpnessPerEdge)

ChildRuleOf(v) ==
    IF v.cRule # RULE_UNKNOWN THEN v.cRule
    ELSE IF v.pRule # RULE_UNKNOWN THEN v.pRule
    ELSE DetermineVertexVertexRule(GetChildSharpness(v), v.edgeCount,
                                   GetChildSharpnessPerEdge(v))

RuleTransition ==
    /\ Computed("ComputeVertexVertexMask")
    /\ ParentRuleOf(Neighborhood) \in {RULE_CREASE, RULE_CORNER}
    /\ ChildRuleOf(Neighborhood) # ParentRuleOf(Neighborhood)

ParentMask == MaskForRule(ParentRuleOf(Neighborhood), Neighborhood,
                          Neighborhood.sharpnessPerEdge)

ChildMask == MaskForRule(ChildRuleOf(Neighborhood), Neighborhood,
                         GetChildSharpnessPerEdge(Neighborhood))

\* a * x + b * y on weight arrays, an absent weight counting as zero.
Scaled(a, x, b, y) ==
    [i \in 1..Max(Len(x), Len(y)) |->
        WAdd(WMul(a, IF i <= Len(x) THEN x[i] ELSE Weight(0, 1)),
             WMul(b, IF i <= Len(y) THEN y[i] ELSE Weight(0, 1)))]

OneMinus(w) == WSub(Weight(1, 1), w)

\* C14 as stated: at a rule transition the final mask is
\* (1 - w) * parentMask + w * childMask, w the fractional weight.
C14_ParentScaledByOneMinusW ==
    RuleTransition =>
        LET w == Neighborhood.fractionalWeight IN
        /\ lastCall.result.vertexWeights =
              Scaled(OneMinus(w), ParentMask.vertexWeights, w, ChildMask.vertexWeights)
        /\ lastCall.result.edgeWeights =
              Scaled(OneMinus(w), ParentMask.edgeWeights, w, ChildMask.edgeWeights)
        /\ lastCall.result.faceWeights =
              Scaled(OneMinus(w), ParentMask.faceWeights, w, ChildMask.faceWeights)

\* C14: at a rule transition (parent Crease or Corner, child differing) the
\* final mask is w * parentMask + (1 - w) * childMask, w the fractional
\* weight: the parent mask is scaled by w and the child mask by 1 - w.  Where
\* the child mask has no edge (face) weights the parent's are kept as they
\* are.
C14_ParentScaledByW ==
    RuleTransition =>
        LET w == Neighborhood.fractionalWeight IN
        /\ lastCall.result.vertexWeights =
              Scaled(w, ParentMask.vertexWeights, OneMinus(w), ChildMask.vertexWeights)
        /\ lastCall.result.edgeWeights =
              IF ChildMask.edgeWeights = <<>> THEN ParentMask.edgeWeights
              ELSE Scaled(w, ParentMask.edgeWeights, OneMinus(w), ChildMask.edgeWeights)
        /\ lastCall.result.faceWeights =
              IF ChildMask.faceWeights = <<>> THEN ParentMask.faceWeights
              ELSE Scaled(w, ParentMask.faceWeights, OneMinus(w), ChildMask.faceWeights)

\* A corner decaying to a smooth vertex, rules determined from sharpness,
\* blended with w = 1/4.
C14_Witness ==
    /\ RuleTransition
    /\ Neighborhood.pRule = RULE_UNKNOWN
    /\ ParentRuleOf(Neighborhood) = RULE_CORNER
    /\ ChildRuleOf(Neighborhood) = RULE_SMOOTH
    /\ Neighborhood.fractionalWeight = Weight(1, 4)
    /\ lastCall.result.vertexWeights[1] =
          WAdd(Weight(1, 4), WMul(Weight(3, 4), ChildMask.vertexWeights[1]))

\* The call took the crease-to-smooth branch of ComputeEdgeVertexMask: the
\* parent is a crease and the child is smooth, as passed or as determined.
CreaseToSmooth ==
    /\ Computed("ComputeEdgeVertexMask")
    /\ LET e == Neighborhood IN
       /\ WLt(Weight(0, 1), e.sharpness)
       /\ e.parentRule # RULE_SMOOTH
       /\ \/ e.childRule \in {RULE_SMOOTH, RULE_DART}
          \/ /\ e.childRule = RULE_UNKNOWN
             /\ e.parentRule = RULE_UNKNOWN
             /\ WLt(e.sharpness, Weight(1, 1))
             /\ \/ e.creaseIsUniform
                \/ ~ /\ WLt(Weight(0, 1), e.childSharpnesses[1])
                     /\ WLt(Weight(0, 1), e.childSharpnesses[2])

Clamped(s) ==
    IF WLe(s, Weight(0, 1)) THEN Weight(0, 1)
    ELSE IF WLe(Weight(1, 1), s) THEN Weight(1, 1) ELSE s

InUnitInterval(w) == WLe(Weight(0, 1), w) /\ WLe(w, Weight(1, 1))

\* C15: in the crease-to-smooth branch of ComputeEdgeVertexMask, for every
\* parent sharpness > 0, with w the sharpness clamped to [0,1]:
\* vertWeight[i] = w * 0.5 + (1 - w) * smoothVertWeight[i],
\* faceWeight[j] = (1 - w) * smoothFaceWeight[j], and every weight is in
\* [0,1].
C15_ClampedBlend ==
    CreaseToSmooth =>
        LET w == Clamped(Neighborhood.sharpness)
            smooth == assignSmoothMaskForEdge(Neighborhood)
            m == lastCall.result
        IN  /\ m.vertexWeights =
                 [i \in 1..2 |-> WAdd(WMul(w, Weight(1, 2)),
                                      WMul(OneMinus(w), smooth.vertexWeights[i]))]
            /\ m.faceWeights =
                 [j \in 1..Len(smooth.faceWeights) |->
                     WMul(OneMinus(w), smooth.faceWeights[j])]
            /\ \A i \in 1..2 : InUnitInterval(m.vertexWeights[i])
            /\ \A j \in 1..Len(m.faceWeights) : InUnitInterval(m.faceWeights[j])

\* C16: an interior edge of sharpness 2.0 under the Uniform method, rules
\* left Unknown: the edge-vertex mask is the crease mask [0.5, 0.5] at level
\* 0 (sharpness 2.0) and at level 1 (sharpness 1.0), and the smooth mask at
\* level 2 (sharpness 0.0).
C16_SharpnessTwoDecays ==
    (/\ Computed("ComputeEdgeVertexMask")
     /\ Neighborhood.rootSharpness = Weight(2, 1)
     /\ Neighborhood.faceCount = 2
     /\ Neighborhood.creaseIsUniform
     /\ Neighborhood.parentRule = RULE_UNKNOWN
     /\ Neighborhood.childRule = RULE_UNKNOWN)
    => LET e == Neighborhood
           crease == Mask(<<Weight(1, 2), Weight(1, 2)>>, <<>>, <<>>)
       IN  /\ e.level = 0 => e.sharpness = Weight(2, 1) /\ lastCall.result = crease
           /\ e.level = 1 => e.sharpness = Weight(1, 1) /\ lastCall.result = crease
           /\ e.level = 2 => /\ e.sharpness = Weight(0, 1)
                             /\ lastCall.result = assignSmoothMaskForEdge(e)
                             /\ lastCall.result.vertexWeights = <<Weight(3, 8), Weight(3, 8)>>
           /\ e.level > 2 => e.sharpness = Weight(0, 1)

C16_Witness ==
    /\ Computed("ComputeEdgeVertexMask")
    /\ Neighborhood.rootSharpness = Weight(2, 1)
    /\ Neighborhood.faceCount = 2
    /\ Neighborhood.level = 2
    /\ Neighborhood.sharpness = Weight(0, 1)
    /\ Len(lastCall.result.faceWeights) > 0

\* The events of the refinement call just returned, and those that write
\* the child level of their step.
Events == lastCall.events

WritesChild(n) == Events[n].ev \in {"initialize", "refine"}

\* C17: within one RefineUniform or RefineAdaptive call the steps are
\* sequential: every call of step i + 1 (initialize, selection, refine)
\* comes after the refine of step i has returned, initialize precedes refine
\* within a step, and Level[i] (the child of step i) is not written once a
\* call of step i + 1, which reads it as parent, has been made.
C17_StepsSequential ==
    RefineReturned =>
        /\ \A m \in 1..Len(Events), n \in 1..Len(Events) :
               m < n => Events[m].step <= Events[n].step
        /\ \A n \in 1..Len(Events) :
               Events[n].step > 1 =>
                  \E m \in 1..(n - 1) :
                     Events[m] = Event("refine", Events[n].step - 1, NoArg)
        /\ \A n \in 1..Len(Events) :
               Events[n].ev = "refine" =>
                  \E m \in 1..(n - 1) :
                     Events[m] = Event("initialize", Events[n].step, NoArg)
        /\ \A m \in 1..Len(Events), n \in 1..Len(Events) :
               (m < n /\ WritesChild(n)) => Events[m].step # Events[n].step + 1

\* The adaptive loop has run two steps, each with its selector.
C17_Witness ==
    /\ RefineReturned
    /\ lastCall.op = "RefineAdaptive"
    /\ Event("refine", 2, NoArg) \in Range(Events)
    /\ \E n \in EventsNamed("selectVertexFaces") : Events[n].step = 2

\* The parent level of step s of the call just returned.
ParentOfStep(s) == levels[s]

\* C18: the analyzer calls selectFace(f) for every face f of a depth-0
\* parent whose vertex count is not 4, and makes no selectFace call at all
\* on a parent of depth > 0.
C18_NonQuadsSelectedAtDepthZero ==
    Returned("RefineAdaptive") =>
        /\ \A s \in StepsOf("beginSelection") :
               ParentOfStep(s).depth = 0 =>
                  \A f \in 1..ParentOfStep(s).faceCount :
                     Len(ParentOfStep(s).faceVerts[f]) # 4 =>
                        Event("selectFace", s, f) \in Range(Events)
        /\ \A n \in EventsNamed("selectFace") :
               ParentOfStep(Events[n].step).depth = 0

\* A triangle at depth 0 has been selected, and a second step has analyzed
\* its children at depth 1.
C18_Witness ==
    /\ Returned("RefineAdaptive")
    /\ \E f \in 1..levels[1].faceCount :
          /\ Len(levels[1].faceVerts[f]) = 3
          /\ Event("selectFace", 1, f) \in Range(Events)
    /\ 2 \in StepsOf("beginSelection")
    /\ ParentOfStep(2).depth = 1
    /\ ParentOfStep(2).faceCount > 0

-----------------------------------------------------------------------------
(* Properties of the analyzer on the base level.                            *)

Analyzed == lastCall.op = "catmarkFeatureAdaptiveSelector"

QuadFaces(level) == {f \in 1..level.faceCount : Len(level.faceVerts[f]) = 4}

\* The positions, in the edge order of face f, of its boundary edges.
BoundaryPositions(level, f) ==
    {i \in 1..4 : Len(level.edgeFaces[level.faceEdges[f][i]]) = 1}

OppositePositions(b) == b = {1, 3} \/ b = {2, 4}

FaceSelected(f) == Event("selectFace", 1, f) \in Range(Events)

\* C19 as stated: a quad of a depth-0 level, manifold or not, is selected
\* by the face pass exactly when it has more than two boundary edges, or
\* two that are opposite in its edge order.
C19_OppositeBoundaries ==
    Analyzed =>
        \A f \in QuadFaces(levels[1]) :
            LET b == BoundaryPositions(levels[1], f) IN
            FaceSelected(f) <=>
                (Cardinality(b) > 2 \/ (Cardinality(b) = 2 /\ OppositePositions(b)))

\* C19: a quad of a depth-0 level is selected by the face pass exactly when
\* it has more than two boundary edges, or two and its first and third edge
\* have the same number of incident faces; when none of its edges has more
\* than two faces, that is: two boundary edges that are opposite.
C19_EqualFaceCountsOfOppositeEdges ==
    Analyzed =>
        \A f \in QuadFaces(levels[1]) :
            LET b == BoundaryPositions(levels[1], f)
                nf(i) == Len(levels[1].edgeFaces[levels[1].faceEdges[f][i]])
            IN  /\ FaceSelected(f) <=>
                      (Cardinality(b) > 2 \/ (Cardinality(b) = 2 /\ nf(1) = nf(3)))
                /\ (\A i \in 1..4 : nf(i) <= 2) =>
                      (FaceSelected(f) <=>
                          (Cardinality(b) > 2
                              \/ (Cardinality(b) = 2 /\ OppositePositions(b))))

\* The quad <<1, 2, 3, 4>> with its second and fourth edge on the boundary
\* and its first and third edge in two and three faces is not selected; the
\* quad attached to its first edge, with three boundary edges, is.
C19_Witness ==
    /\ Analyzed
    /\ BoundaryPositions(levels[1], 1) = {2, 4}
    /\ Len(levels[1].edgeFaces[levels[1].faceEdges[1][1]]) = 2
    /\ Len(levels[1].edgeFaces[levels[1].faceEdges[1][3]]) = 3
    /\ ~FaceSelected(1)
    /\ Cardinality(BoundaryPositions(levels[1], 2)) = 3
    /\ FaceSelected(2)

\* The vertex pass has called selectVertexFaces(v).  On a level without a
\* sharp edge the edge pass makes no call, and with no previous refinement
\* no vertex is incomplete.
VertexSelected(v) == Event("selectVertexFaces", 1, v) \in Range(Events)

NoSharpEdge(level) == \A e \in 1..level.edgeCount : level.edgeSharpness[e] <= 0

\* The smooth cases of the vertex test: an interior vertex of valence other
\* than 4, a boundary vertex with a number of faces other than 2.
SmoothVertexIrregular(level, v) ==
    \/ /\ Len(level.vertFaces[v]) = Len(level.vertEdges[v])
       /\ Len(level.vertEdges[v]) # 4
    \/ /\ Len(level.vertFaces[v]) # Len(level.vertEdges[v])
       /\ Len(level.vertFaces[v]) # 2

\* C20 as stated: selectVertexFaces(v) is called for a non-incomplete
\* vertex exactly when it is sharp with more than one incident face or a
\* finite sharpness, or smooth and irregular.
C20_MoreThanOneFace ==
    (Analyzed /\ NoSharpEdge(levels[1])) =>
        \A v \in 1..levels[1].vertCount :
            VertexSelected(v) <=>
                IF levels[1].vertSharpness[v] > 0
                THEN \/ Len(levels[1].vertFaces[v]) > 1
                     \/ levels[1].vertSharpness[v] < INFINITE
                ELSE SmoothVertexIrregular(levels[1], v)

\* C20: selectVertexFaces(v) is called for a non-incomplete vertex exactly
\* when it is sharp with a number of incident faces other than one or a
\* finite sharpness, or smooth and irregular; an infinitely sharp vertex is
\* left unselected only when it has exactly one incident face.
C20_OtherThanOneFace ==
    (Analyzed /\ NoSharpEdge(levels[1])) =>
        \A v \in 1..levels[1].vertCount :
            /\ VertexSelected(v) <=>
                  IF levels[1].vertSharpness[v] > 0
                  THEN \/ Len(levels[1].vertFaces[v]) # 1
                       \/ levels[1].vertSharpness[v] < INFINITE
                  ELSE SmoothVertexIrregular(levels[1], v)
            /\ (levels[1].vertSharpness[v] >= INFINITE /\ ~VertexSelected(v))
                  => Len(levels[1].vertFaces[v]) = 1

\* An infinitely sharp vertex that no face refers to is selected, and so is
\* a smooth boundary vertex of three faces; a smooth boundary vertex of two
\* faces is not.
C20_Witness ==
    /\ Analyzed /\ NoSharpEdge(levels[1])
    /\ \E v \in 1..levels[1].vertCount :
          /\ levels[1].vertSharpness[v] = INFINITE
          /\ Len(levels[1].vertFaces[v]) = 0
          /\ VertexSelected(v)
    /\ \E v \in 1..levels[1].vertCount :
          /\ levels[1].vertSharpness[v] = 0
          /\ Len(levels[1].vertFaces[v]) = 3
          /\ Len(levels[1].vertEdges[v]) = 4
          /\ VertexSelected(v)
    /\ \E v \in 1..levels[1].vertCount :
          /\ levels[1].vertSharpness[v] = 0
          /\ Len(levels[1].vertFaces[v]) = 2
          /\ Len(levels[1].vertEdges[v]) = 3
          /\ ~VertexSelected(v)

-----------------------------------------------------------------------------
(* Properties of the edge pass and of the selector protocol.                *)

\* Whether vertex v of the parent level of step s is incomplete: a child of
\* the previous refinement tagged so by it.
IncompleteAt(s, v) ==
    /\ s > 1
    /\ v <= Len(refinements[s - 1].childVertIncomplete)
    /\ refinements[s - 1].childVertIncomplete[v]

\* The edges of a level that are sharp and have two or more faces.
SharpInteriorEdges(level) ==
    {e \in 1..level.edgeCount :
        level.edgeSharpness[e] > 0 /\ Len(level.edgeFaces[e]) >= 2}

SelectVertexFacesCalls(s, v) ==
    Cardinality({n \in EventsNamed("selectVertexFaces") :
                    Events[n].step = s /\ Events[n].arg = v})

\* C21: at every level, the edge pass calls selectVertexFaces once for each
\* complete end point of each edge that is sharp with two or more faces
\* (non-manifold edges included), and makes no call for an edge that is
\* smooth or has fewer than two faces: the calls for a vertex are the one
\* of the vertex pass, if any, and one per such edge at the vertex.
C21_SharpInteriorEdgesSelectEnds ==
    Returned("RefineAdaptive") =>
        \A s \in StepsOf("beginSelection") :
            \A v \in 1..ParentOfStep(s).vertCount :
                SelectVertexFacesCalls(s, v) =
                    IF IncompleteAt(s, v) THEN 0
                    ELSE BoolInt(VertexSelects(ParentOfStep(s), v))
                         + Cardinality({e \in SharpInteriorEdges(ParentOfStep(s)) :
                                           v \in Range(ParentOfStep(s).edgeVerts[e])})

\* A sharp edge in three faces at depth 0 and its sharp children at depth 1
\* have had their end points selected, next to incomplete vertices.
C21_Witness ==
    /\ Returned("RefineAdaptive")
    /\ \E e \in SharpInteriorEdges(levels[1]) :
          /\ Len(levels[1].edgeFaces[e]) = 3
          /\ SelectVertexFacesCalls(1, levels[1].edgeVerts[e][1]) >= 1
    /\ 2 \in StepsOf("endSelection")
    /\ \E e \in SharpInteriorEdges(levels[2]) :
          SelectVertexFacesCalls(2, levels[2].edgeVerts[e][2]) >= 1
    /\ \E v \in 1..levels[2].vertCount : IncompleteAt(2, v)
    /\ \E e \in 1..levels[1].edgeCount :
          levels[1].edgeSharpness[e] <= 0 /\ Len(levels[1].edgeFaces[e]) = 1

\* The positions in the call record of the events of step s with a name.
At(name, s) == {n \in EventsNamed(name) : Events[n].step = s}

SelectCalls(s) == At("selectFace", s) \cup At("selectVertexFaces", s)

\* C22: in every iteration of RefineAdaptive the selector sees one
\* beginSelection and, after it, one endSelection; every selectFace and
\* selectVertexFaces call lies between the two; isSelectionEmpty is queried
\* after endSelection; and refine of the step is invoked only after
\* endSelection and only when isSelectionEmpty has answered false.
C22_SelectorProtocol ==
    Returned("RefineAdaptive") =>
        \A s \in StepsOf("initialize") :
            /\ Cardinality(At("beginSelection", s)) = 1
            /\ Cardinality(At("endSelection", s)) = 1
            /\ \A b \in At("beginSelection", s), e \in At("endSelection", s) :
                  /\ b < e
                  /\ \A n \in SelectCalls(s) : b < n /\ n < e
                  /\ \A q \in At("isSelectionEmpty", s) : e < q
                  /\ \A r \in At("refine", s) :
                        /\ e < r
                        /\ \E q \in At("isSelectionEmpty", s) :
                              q < r /\ Events[q].arg = 0
            /\ Cardinality(At("isSelectionEmpty", s)) = 1
            /\ Cardinality(At("refine", s)) <= 1

\* Two iterations: the first selected and refined, the second selected
\* nothing and was not refined.
C22_Witness ==
    /\ Returned("RefineAdaptive")
    /\ SelectCalls(1) # {}
    /\ At("refine", 1) # {}
    /\ At("endSelection", 2) # {}
    /\ SelectCalls(2) = {}
    /\ At("refine", 2) = {}

\* C23: the analyzer never calls selectVertexFaces(v) for a vertex the
\* selector reports incomplete, in the vertex pass or in the edge pass; the
\* selector of step i >= 2 is given Refinement[i-2], the refinement that
\* built the parent level of the step, and the selector of step 1 none, so
\* that no vertex of level 0 is incomplete.
C23_IncompleteNeverSelected ==
    Returned("RefineAdaptive") =>
        \A s \in StepsOf("beginSelection") :
            /\ Cardinality(At("setPreviousRefinement", s)) = 1
            /\ \A n \in At("setPreviousRefinement", s) :
                  /\ Events[n].arg = (IF s = 1 THEN NoLevel ELSE s - 1)
                  /\ \A b \in At("beginSelection", s) : n < b
            /\ s >= 2 => refinements[s - 1].child = s - 1
            /\ \A n \in At("selectVertexFaces", s) :
                  ~IncompleteAt(s, Events[n].arg)
            /\ s = 1 => \A v \in 1..ParentOfStep(1).vertCount : ~IncompleteAt(1, v)

\* At a step after the first a vertex the vertex test would select is
\* incomplete and has not been selected, while a complete one has.
C23_Witness ==
    /\ Returned("RefineAdaptive")
    /\ \E s \in StepsOf("endSelection") :
          /\ s > 1
          /\ \E v \in 1..levels[s].vertCount :
                /\ IncompleteAt(s, v)
                /\ VertexSelects(levels[s], v)
                /\ SelectVertexFacesCalls(s, v) = 0
          /\ \E v \in 1..levels[s].vertCount :
                ~IncompleteAt(s, v) /\ SelectVertexFacesCalls(s, v) > 0

\* The weights of an array, each multiplied by a coefficient.
Times(c, x) == [i \in 1..Len(x) |-> WMul(c, x[i])]

\* With exactly one of the arrays empty, the other array times its own
\* coefficient.
SparseCombination(mine, thisCoeff, theirs, dstCoeff, result) ==
    /\ (mine = <<>> /\ theirs # <<>>) => result = Times(dstCoeff, theirs)
    /\ (mine # <<>> /\ theirs = <<>>) => result = Times(thisCoeff, mine)

\* C24: CombineVertexVertexMasks treats sparse arrays symmetrically: when
\* exactly one of the source and the destination has no edge (face)
\* weights, the resulting edge (face) weights are the other mask's, each
\* multiplied by that mask's own coefficient.
C24_SparseSymmetric ==
    Computed("CombineVertexVertexMasks") =>
        LET c == Neighborhood IN
        /\ SparseCombination(c.this.edgeWeights, c.thisCoeff,
                             c.dst.edgeWeights, c.dstCoeff,
                             lastCall.result.edgeWeights)
        /\ SparseCombination(c.this.faceWeights, c.thisCoeff,
                             c.dst.faceWeights, c.dstCoeff,
                             lastCall.result.faceWeights)

\* The mask of a single rule at the parent's sharpness values.
UnblendedMask(rule, v) ==
    IF rule \in {RULE_SMOOTH, RULE_DART} THEN assignSmoothMaskForVertex(v)
    ELSE IF rule = RULE_CREASE
    THEN assignCreaseMaskForVertex(v, v.sharpnessPerEdge)
    ELSE Mask(<<Weight(1, 1)>>, <<>>, <<>>)

\* The parent rule is given and the child rule is left Unknown.
ParentRuleOnly ==
    /\ Computed("ComputeVertexVertexMask")
    /\ Neighborhood.pRule # RULE_UNKNOWN
    /\ Neighborhood.cRule = RULE_UNKNOWN

\* C25: when ComputeVertexVertexMask is given the parent rule and the child
\* rule is Unknown, the result is the unblended mask of the parent rule
\* (smooth for Smooth and Dart, crease for Crease, vertex weight 1 alone for
\* Corner) whatever the sharpness values; and whenever the child rule equals
\* the parent rule, given or determined, the result is the parent's mask.
C25_ParentRuleAloneIsUnblended ==
    /\ ParentRuleOnly =>
          lastCall.result = UnblendedMask(Neighborhood.pRule, Neighborhood)
    /\ (Computed("ComputeVertexVertexMask")
          /\ ChildRuleOf(Neighborhood) = ParentRuleOf(Neighborhood))
          => lastCall.result = UnblendedMask(ParentRuleOf(Neighborhood), Neighborhood)

\* C25 happens: the crease mask is returned for a crease given as the parent
\* rule alone although every sharpness decays to zero in the child, where the
\* rule determined from the child's sharpness is Smooth and the fractional
\* weight would have mixed the two masks.
C25_Witness ==
    /\ ParentRuleOnly
    /\ Neighborhood.pRule = RULE_CREASE
    /\ DetermineVertexVertexRule(GetChildSharpness(Neighborhood),
                                 Neighborhood.edgeCount,
                                 GetChildSharpnessPerEdge(Neighborhood)) = RULE_SMOOTH
    /\ Neighborhood.fractionalWeight = Weight(1, 2)
    /\ lastCall.result = assignCreaseMaskForVertex(Neighborhood,
                                                   Neighborhood.sharpnessPerEdge)
    /\ lastCall.result # assignSmoothMaskForVertex(Neighborhood)

\* C26: in every state reachable by RefineUniform, RefineAdaptive, Unrefine
\* and Clear the stored maxLevel is the Level stack length minus one, the
\* deepest level present.
C26_MaxLevelIsDeepestLevel == maxLevel = Len(levels) - 1

\* The relation in the states the two refine calls return in.
C26_AfterRefineCalls ==
    (status = "ok" /\ lastCall.op \in {"RefineUniform", "RefineAdaptive"})
        => maxLevel = Len(levels) - 1

\* The refinement steps made by the RefineAdaptive call that has returned.
StepsRefined == {i \in DOMAIN refinements : refinements[i].refined}

\* C27: RefineAdaptive refines every step with sparse, parentTagging and
\* childTagging on and faceTopologyOnly off for both values of fullTopology,
\* and the members it leaves and the calls it makes are those of the same
\* call with the other value of fullTopology.
C27_FullTopologyHasNoEffect ==
    [][(status = "ok" /\ status' = "ok" /\ lastCall'.op = "RefineAdaptive")
          => LET subdivLevel == lastCall'.args[1]
                 fullTopology == lastCall'.args[2]
                 computeMasks == lastCall'.args[3]
                 other == AdaptiveResult(subdivLevel, ~fullTopology, computeMasks)
             IN  /\ \A i \in DOMAIN refinements' :
                       refinements'[i].refined =>
                           /\ refinements'[i].options.sparse
                           /\ refinements'[i].options.parentTagging
                           /\ refinements'[i].options.childTagging
                           /\ ~refinements'[i].options.faceTopologyOnly
                 /\ isUniform' = FALSE
                 /\ maxLevel' = other.maxLevel
                 /\ levels' = other.levels
                 /\ refinements' = other.refinements
                 /\ lastCall'.events = other.events]_vars

\* C27 happens: a RefineAdaptive call with fullTopology false has refined two
\* steps, each with the full topology.
C27_Witness ==
    /\ status = "ok"
    /\ lastCall.op = "RefineAdaptive"
    /\ lastCall.args[2] = FALSE
    /\ Cardinality(StepsRefined) >= 2
    /\ \A i \in StepsRefined :
          /\ ~refinements[i].options.faceTopologyOnly
          /\ refinements[i].options.sparse

\* The calls made by the Refine of a step, by name, in order.
GLCallsAfter == [i \in DOMAIN lastCall'.events |-> lastCall'.events[i].call]

\* C28: Refine with an empty batch vector makes no call and leaves the bind
\* state unchanged; with a non-empty one it makes bind, BindTableTextures
\* with the kernel bundle that bind has chosen, the dispatch,
\* UnbindTableTextures and unbind, each once and in this order; after every
\* Refine the bound vertex and varying buffer ids are 0 and both descriptors
\* are reset.
C28_RefineBindsAndUnbinds ==
    [][lastCall'.op = "Refine" =>
          /\ lastCall'.args[1] = <<>> =>
                /\ lastCall'.events = <<>>
                /\ currentBindState' = currentBindState
          /\ lastCall'.args[1] # <<>> =>
                /\ GLCallsAfter = <<"bind", "BindTableTextures",
                                    "FarDispatcher::Refine",
                                    "UnbindTableTextures", "unbind">>
                /\ lastCall'.events[1].arg =
                      bind(lastCall'.args[2], lastCall'.args[3],
                           lastCall'.args[4], lastCall'.args[5])
                /\ lastCall'.events[2].arg = lastCall'.events[1].arg.kernelBundle
                /\ lastCall'.events[3].arg = lastCall'.args[1]
                /\ lastCall'.events[5].arg = currentBindState'
          /\ currentBindState'.vertexBuffer = 0
          /\ currentBindState'.varyingBuffer = 0
          /\ currentBindState'.vertexDesc = ResetDescriptor
          /\ currentBindState'.varyingDesc = ResetDescriptor]_vars

\* C28 happens: a Refine with two batches on one interleaved buffer has bound
\* the buffer's id for both, has passed the bundle of the interleaved
\* configuration to BindTableTextures and has returned with both ids 0 and
\* both descriptors reset.
C28_Witness ==
    /\ lastCall.op = "Refine"
    /\ Len(lastCall.args[1]) = 2
    /\ lastCall.args[2] = lastCall.args[3]
    /\ Len(lastCall.events) = 5
    /\ lastCall.events[1].arg.vertexBuffer = 2
    /\ lastCall.events[1].arg.varyingBuffer = 2
    /\ lastCall.events[2].arg.interleaved
    /\ currentBindState.vertexBuffer = 0
    /\ currentBindState.varyingBuffer = 0
    /\ currentBindState.vertexDesc = ResetDescriptor
    /\ currentBindState.varyingDesc = ResetDescriptor
    /\ currentBindState.kernelBundle = lastCall.events[2].arg

====
